---- MODULE Spec2Model ----
(***************************************************************************)
(* A model of the cni-plugins suite.                                       *)
(*                                                                         *)
(*   SpecAlloc  the ipam-da-consul allocator: concurrent ADD and DEL       *)
(*              invocations against one Consul KV store, one step per      *)
(*              HTTP request.                                              *)
(*   SpecDeleg  ipam-delegated and the delegation driver delegate(): one   *)
(*              chain of sub-plugin processes, one step per spawn and per  *)
(*              exit of a child.                                           *)
(*   SpecMain   one invocation of one plugin of the suite: Cni::load, the  *)
(*              plugin's main and reply().                                 *)
(*   SpecRange  IpRange::iter_free called on any range of the address      *)
(*              space.                                                     *)
(*   SpecFront  the allocator's main from the config to its last request,  *)
(*              one step per server probed and per request sent.           *)
(*   SpecHost   host-neigh and host-routes: the trials of the directives   *)
(*              as interleaved tasks, one step per attempt; SpecHostFair   *)
(*              adds that the tasks are run to their end.                  *)
(*   SpecConfig a NetworkConfig decoded, serialised for a sub-plugin and   *)
(*              decoded there.                                             *)
(*   SpecNeigh  a neighbour directive decoded and serialised, both ways.   *)
(*   SpecTable  one Trial of host-neigh or host-routes against the host's  *)
(*              neighbour or route table, one step per call of try_once.   *)
(*                                                                         *)
(* Addresses are integers of AddrBits bits; an absent Option<IpAddr> is    *)
(* NoIp.  The KV store answers every request atomically.                   *)
(***************************************************************************)
EXTENDS Integers, Sequences, FiniteSets, TLC

\* ------------------------------------------------------------------ bounds

\* Width of an address in bits (32 for IPv4).
AddrBits == 3

\* Number of plugin processes racing on the KV store.
NProcs == 3

\* Longest list of ipam.delegates.
MaxDelegates == 3

\* ------------------------------------------------------------------ values

NoIp == 0 - 1

Pow2(n) == 2 ^ n

Addrs == 0 .. (Pow2(AddrBits) - 1)

Procs == 1 .. NProcs

ContainerIds == {"c1", "c2"}

\* consul.rs ConsulValue::Null: a key whose Value is null.
NullValue == "null"

\* No key at this address.
Absent == [target |-> "absent", index |-> 0]

\* ------------------------------------------------------------ ip ranges

\* ipnetwork: number of addresses of a subnet.
SubnetSize(subnet) == Pow2(AddrBits - subnet.prefix)

\* ipnetwork: the network address (host bits masked off).
SubnetNetwork(subnet) == subnet.addr - (subnet.addr % SubnetSize(subnet))

\* ipnetwork: IpNetwork::contains.
SubnetContains(subnet, ip) ==
    /\ SubnetNetwork(subnet) <= ip
    /\ ip < SubnetNetwork(subnet) + SubnetSize(subnet)

\* ipnetwork: IpNetwork::iter, every address from network to broadcast.
SubnetIter(subnet) ==
    [i \in 1 .. SubnetSize(subnet) |-> SubnetNetwork(subnet) + i - 1]

\* A filter closure that does not look at the gateway.
IsFreeNoGateway(range, ip) ==
    /\ ~(range.range_start # NoIp /\ ip < range.range_start)
    /\ ~(range.range_end # NoIp /\ ip > range.range_end)

\* The filter closure of IpRange::iter_free.
IsFree(range, ip) ==
    /\ ~(range.range_start # NoIp /\ ip < range.range_start)
    /\ ~(range.range_end # NoIp /\ ip > range.range_end)
    /\ ~(range.gateway # NoIp /\ ip = range.gateway)

\* IpRange::iter_free: the free addresses of a range, in subnet order, each
\* with the prefix of the subnet and the range it came from.
IterFree(range) ==
    LET all == SubnetIter(range.subnet)
        kept == SelectSeq(all, LAMBDA ip : IsFree(range, ip))
    IN  [i \in 1 .. Len(kept) |->
            [ip |-> kept[i], prefix |-> range.subnet.prefix, gateway |-> range.gateway]]

RECURSIVE FlatMapFree(_)
\* pool.iter().flat_map(|range| range.iter_free())
FlatMapFree(pool) ==
    IF pool = <<>> THEN <<>>
    ELSE IterFree(Head(pool)) \o FlatMapFree(Tail(pool))

\* The pool definition stored at ipam/<pool>: two ranges.
PoolDef ==
    << [subnet |-> [addr |-> 0, prefix |-> AddrBits - 1],
        range_start |-> NoIp, range_end |-> NoIp, gateway |-> 1],
       [subnet |-> [addr |-> 4, prefix |-> AddrBits - 2],
        range_start |-> 5, range_end |-> 6, gateway |-> NoIp] >>

\* --------------------------------------------------------------- KV store

\* PUT v1/kv/ipam/<pool>/<ip>?cas=0: written only when the key does not exist.
KvPutCas0Ok(store, ip) == store[ip] = Absent

\* PUT v1/kv/ipam/<pool>/<ip> without cas: always written.
KvPutPlainOk(store, ip) == TRUE

\* The store after a write of {target} at ip with Raft index idx.
KvWrite(store, ip, target, idx) ==
    [store EXCEPT ![ip] = [target |-> target, index |-> idx]]

\* One delete-cas operation of a transaction: passes when the key is gone or
\* its ModifyIndex is the given one.
DeleteCasOk(store, op) ==
    \/ store[op.ip] = Absent
    \/ store[op.ip].index = op.index

\* PUT v1/txn: 200 when every operation passes, 409 otherwise.
TxnStatus(store, ops) ==
    IF \A op \in ops : DeleteCasOk(store, op) THEN 200 ELSE 409

\* A best-effort deletion: every operation that passes is applied.
TxnApplyBestEffort(store, ops) ==
    [ip \in Addrs |->
        IF \E op \in ops : op.ip = ip /\ DeleteCasOk(store, op) THEN Absent ELSE store[ip]]

\* The store after a transaction: all of it applied on 200, nothing on 409.
TxnApply(store, ops) ==
    IF TxnStatus(store, ops) = 200
    THEN [ip \in Addrs |-> IF \E op \in ops : op.ip = ip THEN Absent ELSE store[ip]]
    ELSE store

\* Keys present under ipam/<pool>/.
Keys(store) == {ip \in Addrs : store[ip] # Absent}

\* ------------------------------------------------------------- allocator

VARIABLES
    kv,         \* the store: address -> Absent or [target, index]
    kv0,        \* the store before any invocation started
    raftIndex,  \* Consul's Raft index, the source of ModifyIndex
    input,      \* per process: [command, container_id, requested_ip]
    apc,        \* per process: position in main
    known,      \* per process: the map returned by pool_known
    chosen,     \* per process: [ip, prefix, gateway] picked for the PUT
    result      \* per process: the reply, [kind, ip, prefix, gateway]

allocVars == <<kv, kv0, raftIndex, input, apc, known, chosen, result>>

VARIABLES
    delegated_plugins,  \* ipam.delegates of the input config
    gCommand,           \* the command of the ipam-delegated invocation
    gpc,                \* position in ipam-delegated's main
    gIdx,               \* index of the forward loop over delegated_plugins
    undo,               \* the plugins pushed for rollback
    uIdx,               \* index of the rollback loop over undo
    errors,             \* the (plugin, error) pairs collected
    prev_result,        \* config.prev_result
    last_result,        \* the reply of the last plugin that succeeded
    gReply,             \* the reply written by ipam-delegated
    dpc,                \* position in delegate()
    dPlugin,            \* delegate(): sub_plugin
    dCommand,           \* delegate(): command
    dConfig,            \* delegate(): config_bytes
    dMain,              \* delegate(): outcome of the first delegate_command
    dResult,            \* delegate(): the value returned
    calls,              \* every delegate_command so far, in order
    child               \* the child process now running, if any

delegVars == <<delegated_plugins, gCommand, gpc, gIdx, undo, uIdx, errors,
               prev_result, last_result, gReply, dpc, dPlugin, dCommand,
               dConfig, dMain, dResult, calls, child>>

VARIABLES
    mPlugin,     \* the plugin binary that was started
    env,         \* the CNI_* environment variables
    stdin,       \* standard input: [io, payload, version]
    mpc,         \* position: "load", "body", "exited"
    loaded,      \* the command of the variant Cni::load returned
    stdout,      \* the replies written to standard output
    exitStatus,  \* the exit status of the process
    panicked,    \* the process ended in a panic
    effects      \* the kinds of outside requests made

mainVars == <<mPlugin, env, stdin, mpc, loaded, stdout, exitStatus, panicked, effects>>

VARIABLES
    rRange,      \* the IpRange iter_free is called on
    rCalls       \* the sequences yielded by the calls of iter_free so far

rangeVars == <<rRange, rCalls>>

VARIABLES
    fIn,         \* the allocator's input: command and what the config holds
    fpc,         \* position in the allocator's main
    fIdx,        \* good_server: index of the loop over the server list
    fLastErr,    \* good_server: last_err
    fUrl,        \* consul_url: index of the server chosen, 0 when none
    fRequests,   \* the requests sent to the KV servers so far, in order
    fResult      \* how the block ended: "ok" or the error, "none" before

frontVars == <<fIn, fpc, fIdx, fLastErr, fUrl, fRequests, fResult>>

VARIABLES
    hIn,         \* host mutator: plugin, command and the config keys it reads
    hpc,         \* position in the host mutator's main
    hTries,      \* tries
    hDirectives, \* the directives decoded from the evaluated expression
    hTrials,     \* the Trial of each directive
    hCompleted,  \* the directives whose Trial::run has returned, in that order
    hOutcomes,   \* outcomes: the directives in the order of the collected Vec
    hErrors,     \* the directives whose error went into the joined error
    hPrev,       \* config.prev_result
    hReply,      \* the reply of the invocation
    hNetlink,    \* the number of calls of try_once, each sending netlink requests
    hHost        \* the directives whose entry this invocation has put on the host

hostVars == <<hIn, hpc, hTries, hDirectives, hTrials, hCompleted, hOutcomes,
              hErrors, hPrev, hReply, hNetlink, hHost>>

VARIABLES
    cDoc,        \* the JSON document on standard input
    cpc,         \* position: parse, serialise for the sub-plugin, parse there
    cConfig,     \* the NetworkConfig decoded from cDoc
    cBytes,      \* config_bytes: the document written to the sub-plugin
    cAgain       \* the NetworkConfig the sub-plugin decodes from cBytes

configVars == <<cDoc, cpc, cConfig, cBytes, cAgain>>

VARIABLES
    nIn,         \* a neighbour directive as JSON, or as a value built in code
    npc,         \* position in the round trip
    nNeigh,      \* the Neigh value
    nOut,        \* the JSON the value serialises to
    nAgain       \* the result of the second conversion

neighVars == <<nIn, npc, nNeigh, nOut, nAgain>>

VARIABLES
    tIn,         \* one Trial: plugin, command, directive, the host's table before
    tpc,         \* position: the Trial is being run, or not
    tLink,       \* Trial.link: the link index once resolved
    tTable,      \* the host's neighbour or route table
    tAttempts    \* the calls of try_once so far: requests, result, table after

tableVars == <<tIn, tpc, tLink, tTable, tAttempts>>

\* The variables of the components added after the first four.
laterVars == <<frontVars, hostVars, configVars, neighVars, tableVars>>

vars == <<allocVars, delegVars, mainVars, rangeVars, laterVars>>

\* What an action of one component leaves alone.
allocOther == <<delegVars, mainVars, rangeVars, laterVars>>

delegOther == <<allocVars, mainVars, rangeVars, laterVars>>

mainOther == <<allocVars, delegVars, rangeVars, laterVars>>

rangeOther == <<allocVars, delegVars, mainVars, laterVars>>

firstVars == <<allocVars, delegVars, mainVars, rangeVars>>

frontOther == <<firstVars, hostVars, configVars, neighVars, tableVars>>

hostOther == <<firstVars, frontVars, configVars, neighVars, tableVars>>

configOther == <<firstVars, frontVars, hostVars, neighVars, tableVars>>

neighOther == <<firstVars, frontVars, hostVars, configVars, tableVars>>

tableOther == <<firstVars, frontVars, hostVars, configVars, neighVars>>

\* ---------------------------------------------------- delegation values

\* The sub-plugin binaries that which_in finds on CNI_PATH, and one it does not.
OnPath == {"a", "b", "c"}

PluginNames == OnPath \cup {"x"}

Commands == {"ADD", "DEL", "CHECK"}

NoError == [kind |-> "none", plugin |-> "", inner |-> "", call |-> ""]

\* CniError::Delegated { plugin, err }: inner is the kind of err, call the
\* delegate_command ("main" or "cleanup") that produced it.
Delegated(plugin, inner, call) ==
    [kind |-> "Delegated", plugin |-> plugin, inner |-> inner, call |-> call]

\* CniError::MissingPlugin { name, err }
MissingPlugin(plugin) ==
    [kind |-> "MissingPlugin", plugin |-> plugin, inner |-> "", call |-> ""]

\* A reply, named by the plugin and command that produced it.
ReplyOf(plugin, command) == [from |-> plugin, command |-> command]

NoResult == [from |-> "", command |-> ""]

\* The prevResult the runtime put in the input config.
RuntimeResult == [from |-> "runtime", command |-> ""]

NoChild == [plugin |-> "", command |-> ""]

NoOuterReply == [kind |-> "none", result |-> NoResult, plugins |-> <<>>, details |-> <<>>]

\* Result<S, CniError> of delegate().
DOk(reply) == [ok |-> TRUE, err |-> NoError, reply |-> reply]

DErr(err) == [ok |-> FALSE, err |-> err, reply |-> NoResult]

NoDResult == [ok |-> FALSE, err |-> NoError, reply |-> NoResult]

\* The state of the delegation variables when no chain is running.
DelegIdle ==
    /\ delegated_plugins = <<>>
    /\ gCommand = "ADD"
    /\ gpc = "idle"
    /\ gIdx = 0
    /\ undo = <<>>
    /\ uIdx = 0
    /\ errors = <<>>
    /\ prev_result = NoResult
    /\ last_result = NoResult
    /\ gReply = NoOuterReply
    /\ dpc = "idle"
    /\ dPlugin = ""
    /\ dCommand = ""
    /\ dConfig = NoResult
    /\ dMain = ""
    /\ dResult = NoDResult
    /\ calls = <<>>
    /\ child = NoChild

\* ------------------------------------------------------ invocation values

Plugins == {"advertise", "host-neigh", "host-routes", "ipam-da-consul",
            "ipam-delegated", "ipam-ds-nomad", "ipam-ds-static"}

Version(major, minor, patch) == [major |-> major, minor |-> minor, patch |-> patch]

\* The cniVersion values an input may carry.
Versions == {Version(0, 3, 0), Version(0, 4, 0), Version(0, 4, 1),
             Version(1, 0, 0), Version(1, 1, 0), Version(2, 0, 0)}

NoVersion == Version(0, 0, 0)

\* The keys of a success reply apart from cniVersion.
ResultKeys == {"ips", "routes", "dns", "pools", "custom", "hostNeighbours", "hostRoutes"}

\* The config carries no prevResult.
NoPrev == [present |-> FALSE, version |-> NoVersion, keys |-> {}]

\* The key sets a prevResult may hold.
PrevKeySets ==
    {{}, {"dns"}, {"pools", "custom"}, {"ips", "routes", "dns", "pools", "custom"},
     {"dns", "custom", "hostNeighbours", "hostRoutes"}}

\* The prevResult of a config: absent, or a reply of an earlier plugin
\* with its own cniVersion and keys.
PrevResults ==
    {NoPrev} \cup [present : {TRUE},
                   version : {Version(0, 4, 0), Version(1, 0, 0)},
                   keys : PrevKeySets]

\* The state of the range variables when iter_free is not under study.
RangeIdle ==
    /\ rRange = [subnet |-> [addr |-> 0, prefix |-> 0],
                 range_start |-> NoIp, range_end |-> NoIp, gateway |-> NoIp]
    /\ rCalls = <<>>

\* The state of the allocator's entry variables when it is not running.
FrontIdle ==
    /\ fIn = [command |-> "ADD", ipam |-> FALSE, prev |-> "absent",
              consul |-> "missing", servers |-> <<>>]
    /\ fpc = "idle"
    /\ fIdx = 0
    /\ fLastErr = "none"
    /\ fUrl = 0
    /\ fRequests = <<>>
    /\ fResult = "none"

\* A config value by its JSON type; n is the number when it is one.
JsonAbsent == [type |-> "absent", n |-> 0]

\* A host mutator's prevResult that is absent.
NoHostPrev ==
    [present |-> FALSE, version |-> NoVersion, dns |-> FALSE, ips |-> "absent",
     custom |-> FALSE, own |-> "absent"]

NoHostReply ==
    [kind |-> "none", code |-> 0, version |-> NoVersion, dns |-> FALSE,
     ips |-> "absent", custom |-> FALSE, entries |-> <<>>]

\* The state of the host mutator variables when none is running.
HostIdle ==
    /\ hIn = [plugin |-> "host-neigh", command |-> "ADD", version |-> NoVersion,
              neigh |-> JsonAbsent, routing |-> JsonAbsent]
    /\ hpc = "idle"
    /\ hTries = 0
    /\ hDirectives = <<>>
    /\ hTrials = <<>>
    /\ hCompleted = <<>>
    /\ hOutcomes = <<>>
    /\ hErrors = <<>>
    /\ hPrev = NoHostPrev
    /\ hReply = NoHostReply
    /\ hNetlink = 0
    /\ hHost = {}

\* A JSON document of a network config by the form of each key.
NoDoc ==
    [cniVersion |-> "absent", ipMasq |-> "absent", args |-> "absent", ipam |-> "absent",
     ipamKey |-> "absent", dns |-> "absent", prevResult |-> "absent",
     custom |-> "absent"]

\* No NetworkConfig: the document did not decode, or none was decoded yet.
NoConfig ==
    [ok |-> FALSE, cni_version |-> "", ip_masq |-> FALSE, args |-> "empty",
     ipam |-> "none", ipam_specific |-> "absent", dns |-> "none",
     prev_result |-> "none", specific |-> "absent"]

\* The state of the config variables when no config is under study.
ConfigIdle ==
    /\ cDoc = NoDoc
    /\ cpc = "idle"
    /\ cConfig = NoConfig
    /\ cBytes = NoDoc
    /\ cAgain = NoConfig

\* A neighbour directive as JSON by the form of each key, and no Neigh.
NoNeighJson == [address |-> "absent", device |-> "absent", lladdr |-> "absent"]

NoNeigh == [ok |-> FALSE, address |-> "", device |-> "", variant |-> "None", lladdr |-> ""]

\* The state of the directive variables when no directive is under study.
NeighIdle ==
    /\ nIn = [json |-> TRUE, lltype |-> "MacAddr", doc |-> NoNeighJson, value |-> NoNeigh]
    /\ npc = "idle"
    /\ nNeigh = NoNeigh
    /\ nOut = NoNeighJson
    /\ nAgain = NoNeigh

\* Trial.link is None.
Unresolved == 0 - 1

\* A directive with no key set.
NoDirective == [dest |-> "none", device |-> "none", third |-> "none"]

\* The state of the table variables when no Trial is under study.
TableIdle ==
    /\ tIn = [plugin |-> "host-neigh", command |-> "DEL", directive |-> NoDirective,
              table |-> {}]
    /\ tpc = "idle"
    /\ tLink = Unresolved
    /\ tTable = {}
    /\ tAttempts = <<>>

\* The idle state of every component added after the first four.
LaterIdle == FrontIdle /\ HostIdle /\ ConfigIdle /\ NeighIdle /\ TableIdle

\* The state of the invocation variables when no plugin is running.
MainIdle ==
    /\ mPlugin = "advertise"
    /\ env = [command |-> "missing", container_id |-> "missing", ifname |-> "missing",
              netns |-> "missing", path |-> "missing"]
    /\ stdin = [io |-> FALSE, payload |-> "empty", version |-> NoVersion, prev |-> NoPrev]
    /\ mpc = "idle"
    /\ loaded = ""
    /\ stdout = <<>>
    /\ exitStatus = 0 - 1
    /\ panicked = FALSE
    /\ effects = {}

\* ------------------------------------------------------- allocator steps

NoChoice == [ip |-> NoIp, prefix |-> 0, gateway |-> NoIp]

NoReply == [kind |-> "none", ip |-> NoIp, prefix |-> 0, gateway |-> NoIp]

ErrorResult(kind) == [kind |-> kind, ip |-> NoIp, prefix |-> 0, gateway |-> NoIp]

\* A pool_known that keeps the entries with a null value.
PoolKnownWithNulls(store) == [ip \in Keys(store) |-> store[ip]]

\* pool_known: the entries with a non-null value, keyed by address.
PoolKnown(store) ==
    [ip \in {a \in Keys(store) : store[a].target # NullValue} |-> store[ip]]

\* A requested-ip check that takes the first range without looking at its
\* subnet.
RequestedFitAny(pool, ip, acc) ==
    [ip |-> ip, prefix |-> Head(pool).subnet.prefix, gateway |-> Head(pool).gateway]

\* A requested-ip check that takes the prefix of the last range containing
\* the ip but the gateway of the first range of the pool.
RECURSIVE RequestedFitMixed(_, _, _)
RequestedFitMixed(pool, ip, acc) ==
    IF pool = <<>> THEN acc
    ELSE RequestedFitMixed(Tail(pool), ip,
            IF SubnetContains(Head(pool).subnet, ip)
            THEN [ip |-> ip, prefix |-> Head(pool).subnet.prefix,
                  gateway |-> PoolDef[1].gateway]
            ELSE acc)

\* main, Command::Add with a requested ip: the last range whose subnet
\* contains it gives prefix and gateway; NoChoice when none does.
RECURSIVE RequestedFit(_, _, _)
RequestedFit(pool, ip, acc) ==
    IF pool = <<>> THEN acc
    ELSE RequestedFit(Tail(pool), ip,
            IF SubnetContains(Head(pool).subnet, ip)
            THEN [ip |-> ip, prefix |-> Head(pool).subnet.prefix,
                  gateway |-> Head(pool).gateway]
            ELSE acc)

\* main, Command::Add without a requested ip: the free addresses not in
\* pool_known, in pool order.
FreeUnknown(pool, knownMap) ==
    SelectSeq(FlatMapFree(pool), LAMBDA c : c.ip \notin DOMAIN knownMap)

\* An Add that never appends cas=0.
PutOkNoCas(store, ip, requested) == KvPutPlainOk(store, ip)

\* main, Command::Add: cas=0 is appended only when no ip was requested.
PutOk(store, ip, requested) ==
    IF requested = NoIp THEN KvPutCas0Ok(store, ip) ELSE KvPutPlainOk(store, ip)

\* A Del that takes the first of the container's keys only.
RipFirstOnly(knownMap, container_id) ==
    LET mine == {a \in DOMAIN knownMap : knownMap[a].target = container_id}
    IN  {[ip |-> ip, index |-> knownMap[ip].index] :
            ip \in {a \in mine : \A b \in mine : a <= b}}

\* A Del that forgets to compare the target.
RipAnyTarget(knownMap, container_id) ==
    {[ip |-> ip, index |-> knownMap[ip].index] : ip \in DOMAIN knownMap}

\* main, Command::Del: the (key, ModifyIndex) pairs whose target is ours.
Rip(knownMap, container_id) ==
    {[ip |-> ip, index |-> knownMap[ip].index] :
        ip \in {a \in DOMAIN knownMap : knownMap[a].target = container_id}}

\* The invocations the runtime may start. Container c1 may request an
\* address in the first range's subnet (0), one outside the pool (3) and one
\* in the second range's subnet (7); container c2 requests 0 or none.
Inputs ==
    [command : {"ADD"}, container_id : {"c1"}, requested_ip : {NoIp, 0, 3, 7}]
    \cup [command : {"ADD"}, container_id : {"c2"}, requested_ip : {NoIp, 0}]
    \cup [command : {"DEL"}, container_id : ContainerIds, requested_ip : {NoIp}]

\* The processes are interchangeable: the inputs are taken in a fixed order.
InputRank(i) ==
    (IF i.command = "ADD" THEN 0 ELSE 100)
    + (IF i.container_id = "c1" THEN 0 ELSE 10)
    + (i.requested_ip + 1)

\* The stores an invocation may find: empty, or one address held by c2 and
\* a key with a null value, or every free address of the pool held.
InitStores ==
    { [ip \in Addrs |-> Absent],
      [ip \in Addrs |-> IF ip = 2 THEN [target |-> "c2", index |-> 1]
                        ELSE IF ip = 5 THEN [target |-> NullValue, index |-> 1]
                        ELSE Absent],
      [ip \in Addrs |-> IF ip = 0 THEN [target |-> "c1", index |-> 1]
                        ELSE IF ip \in {5, 6} THEN [target |-> "c2", index |-> 1]
                        ELSE Absent] }

AllocInit ==
    /\ kv \in InitStores
    /\ kv0 = kv
    /\ raftIndex = 1
    /\ input \in [Procs -> Inputs]
    /\ \A p \in Procs, q \in Procs : p < q => InputRank(input[p]) <= InputRank(input[q])
    /\ apc = [p \in Procs |-> "start"]
    /\ known = [p \in Procs |-> <<>>]
    /\ chosen = [p \in Procs |-> NoChoice]
    /\ result = [p \in Procs |-> NoReply]
    /\ DelegIdle
    /\ MainIdle
    /\ RangeIdle
    /\ LaterIdle

\* good_server: the first server that answers the probe of v1/kv/ipam/.
GoodServer(p) ==
    /\ apc[p] = "start"
    /\ \E up \in BOOLEAN :
        IF up
        THEN /\ apc' = [apc EXCEPT ![p] = "probed"]
             /\ UNCHANGED result
        ELSE /\ apc' = [apc EXCEPT ![p] = "done"]
             /\ result' = [result EXCEPT ![p] = ErrorResult("Http")]
    /\ UNCHANGED <<kv, kv0, raftIndex, input, known, chosen>>
    /\ UNCHANGED allocOther

\* Command::Add: GET ipam/<pool> (pool_def), then the requested-ip check.
AddPoolDef(p) ==
    /\ apc[p] = "probed"
    /\ input[p].command = "ADD"
    /\ IF input[p].requested_ip = NoIp
       THEN /\ apc' = [apc EXCEPT ![p] = "known"]
            /\ UNCHANGED <<chosen, result>>
       ELSE LET fit == RequestedFit(PoolDef, input[p].requested_ip, NoChoice)
            IN  IF fit = NoChoice
                THEN /\ apc' = [apc EXCEPT ![p] = "done"]
                     /\ result' = [result EXCEPT ![p] = ErrorResult("NotInPool")]
                     /\ UNCHANGED chosen
                ELSE /\ apc' = [apc EXCEPT ![p] = "put"]
                     /\ chosen' = [chosen EXCEPT ![p] = fit]
                     /\ UNCHANGED result
    /\ UNCHANGED <<kv, kv0, raftIndex, input, known>>
    /\ UNCHANGED allocOther

\* Command::Add: GET ipam/<pool>/?recurse (pool_known), then the pick.
AddPoolKnown(p) ==
    /\ apc[p] = "known"
    /\ input[p].command = "ADD"
    /\ LET free == FreeUnknown(PoolDef, PoolKnown(kv))
       IN  IF free = <<>>
           THEN /\ apc' = [apc EXCEPT ![p] = "done"]
                /\ result' = [result EXCEPT ![p] = ErrorResult("PoolFull")]
                /\ UNCHANGED chosen
           ELSE /\ apc' = [apc EXCEPT ![p] = "put"]
                /\ chosen' = [chosen EXCEPT ![p] = Head(free)]
                /\ UNCHANGED result
    /\ known' = [known EXCEPT ![p] = PoolKnown(kv)]
    /\ UNCHANGED <<kv, kv0, raftIndex, input>>
    /\ UNCHANGED allocOther

\* An Add that goes back to the selection when its PUT is answered false.
AddPutRetry(p) ==
    /\ apc[p] = "put"
    /\ IF PutOk(kv, chosen[p].ip, input[p].requested_ip)
       THEN /\ kv' = KvWrite(kv, chosen[p].ip, input[p].container_id, raftIndex + 1)
            /\ raftIndex' = raftIndex + 1
            /\ result' = [result EXCEPT ![p] =
                    [kind |-> "ok", ip |-> chosen[p].ip, prefix |-> chosen[p].prefix,
                     gateway |-> chosen[p].gateway]]
            /\ apc' = [apc EXCEPT ![p] = "done"]
       ELSE /\ apc' = [apc EXCEPT ![p] = "known"]
            /\ UNCHANGED <<kv, raftIndex, result>>
    /\ UNCHANGED <<kv0, input, known, chosen>>
    /\ UNCHANGED allocOther

\* Command::Add: PUT ipam/<pool>/<ip>, then the reply.
AddPut(p) ==
    /\ apc[p] = "put"
    /\ IF PutOk(kv, chosen[p].ip, input[p].requested_ip)
       THEN /\ kv' = KvWrite(kv, chosen[p].ip, input[p].container_id, raftIndex + 1)
            /\ raftIndex' = raftIndex + 1
            /\ result' = [result EXCEPT ![p] =
                    [kind |-> "ok", ip |-> chosen[p].ip, prefix |-> chosen[p].prefix,
                     gateway |-> chosen[p].gateway]]
       ELSE /\ result' = [result EXCEPT ![p] = ErrorResult("ConsulWriteFailed")]
            /\ UNCHANGED <<kv, raftIndex>>
    /\ apc' = [apc EXCEPT ![p] = "done"]
    /\ UNCHANGED <<kv0, input, known, chosen>>
    /\ UNCHANGED allocOther

\* Command::Del: GET ipam/<pool>/?recurse (pool_known).
DelPoolKnown(p) ==
    /\ apc[p] = "probed"
    /\ input[p].command = "DEL"
    /\ known' = [known EXCEPT ![p] = PoolKnown(kv)]
    /\ apc' = [apc EXCEPT ![p] = "txn"]
    /\ UNCHANGED <<kv, kv0, raftIndex, input, chosen, result>>
    /\ UNCHANGED allocOther

\* Command::Del: delete_all, the delete-cas transaction, then the reply.
DelDeleteAll(p) ==
    /\ apc[p] = "txn"
    /\ LET ops == Rip(known[p], input[p].container_id)
       IN  /\ kv' = TxnApply(kv, ops)
           /\ raftIndex' = IF kv' # kv THEN raftIndex + 1 ELSE raftIndex
           /\ result' = [result EXCEPT ![p] =
                   IF TxnStatus(kv, ops) = 200
                   THEN [kind |-> "ok", ip |-> NoIp, prefix |-> 0, gateway |-> NoIp]
                   ELSE ErrorResult("ConsulWriteFailed")]
    /\ apc' = [apc EXCEPT ![p] = "done"]
    /\ UNCHANGED <<kv0, input, known, chosen>>
    /\ UNCHANGED allocOther

AllocNext ==
    \E p \in Procs :
        \/ GoodServer(p)
        \/ AddPoolDef(p)
        \/ AddPoolKnown(p)
        \/ AddPut(p)
        \/ DelPoolKnown(p)
        \/ DelDeleteAll(p)

SpecAlloc == AllocInit /\ [][AllocNext]_vars

\* ---------------------------------------------------- allocator properties

AllDone == \A p \in Procs : apc[p] = "done"

Succeeded(p) == apc[p] = "done" /\ result[p].kind = "ok"

AddSuccesses == {p \in Procs : input[p].command = "ADD" /\ Succeeded(p)}

HeldBy(store, container_id) == {ip \in Addrs : store[ip].target = container_id}

\* C1: among concurrent ADD invocations, with or without a requested ip, no
\* two receive a success reply for the same address.
C1_OneSuccessPerAddress ==
    (\A p \in Procs : input[p].command = "ADD")
        => \A p \in AddSuccesses, q \in AddSuccesses :
                p # q => result[p].ip # result[q].ip

\* C2: when ADD invocations without a requested ip race, after all of them
\* completed the keys of the pool have grown by exactly the number of
\* successes: every success created one new key, which holds its container
\* id, and no other key was created or changed.
C2_KeysGrowBySuccesses ==
    ((\A p \in Procs : input[p].command = "ADD" /\ input[p].requested_ip = NoIp)
        /\ AllDone)
        => /\ Cardinality(Keys(kv)) = Cardinality(Keys(kv0)) + Cardinality(AddSuccesses)
           /\ Keys(kv) \ Keys(kv0) = {result[p].ip : p \in AddSuccesses}
           /\ \A p \in AddSuccesses : kv[result[p].ip].target = input[p].container_id
           /\ \A ip \in Keys(kv0) : kv[ip] = kv0[ip]

\* C2 witness: a finished race of ADDs without requested ip in which one won
\* and one lost the cas.
C2_Witness ==
    /\ \A p \in Procs : input[p].command = "ADD" /\ input[p].requested_ip = NoIp
    /\ AllDone
    /\ \E p \in Procs : result[p].kind = "ok"
    /\ \E p \in Procs : result[p].kind = "ConsulWriteFailed"

\* C3: a DEL for container C whose transaction runs on the store as DEL read
\* it (no invocation interleaved) leaves no key whose target is C, however
\* many addresses C held.
C3_DelReleasesAll ==
    [][\A p \in Procs :
        (DelDeleteAll(p) /\ known[p] = PoolKnown(kv))
            => HeldBy(kv', input[p].container_id) = {}]_vars

\* C3 witness: two ADDs of one container succeeded on two addresses, its DEL
\* read both and replied success, and the container holds nothing.
C3_Witness ==
    \E p \in Procs, q \in Procs, d \in Procs :
        /\ p # q
        /\ input[p].command = "ADD" /\ input[q].command = "ADD" /\ input[d].command = "DEL"
        /\ input[p].container_id = input[d].container_id
        /\ input[q].container_id = input[d].container_id
        /\ Succeeded(p) /\ Succeeded(q) /\ Succeeded(d)
        /\ result[p].ip # result[q].ip
        /\ {result[p].ip, result[q].ip} \subseteq DOMAIN known[d]
        /\ known[d][result[p].ip].target = input[d].container_id
        /\ known[d][result[q].ip].target = input[d].container_id
        /\ HeldBy(kv, input[d].container_id) = {}

\* C4: a DEL for a container that held no allocation when DEL read the pool
\* replies success and leaves every key of the store unchanged.
C4_DelIdempotent ==
    [][\A p \in Procs :
        (DelDeleteAll(p)
            /\ \A ip \in DOMAIN known[p] : known[p][ip].target # input[p].container_id)
            => (result'[p].kind = "ok" /\ kv' = kv)]_vars

\* C4 witness: after a successful ADD a first DEL released the address, and
\* a second DEL of the same container, which read no allocation of it while
\* other keys exist, replied success.
C4_Witness ==
    \E a \in Procs, d \in Procs, e \in Procs :
        /\ d # e
        /\ input[a].command = "ADD" /\ input[d].command = "DEL" /\ input[e].command = "DEL"
        /\ input[a].container_id = input[d].container_id
        /\ input[e].container_id = input[d].container_id
        /\ Succeeded(a) /\ Succeeded(d) /\ Succeeded(e)
        /\ result[a].ip \in DOMAIN known[d]
        /\ known[d][result[a].ip].target = input[d].container_id
        /\ DOMAIN known[e] # {}
        /\ \A ip \in DOMAIN known[e] : known[e][ip].target # input[e].container_id
        /\ HeldBy(kv, input[d].container_id) = {}
        /\ Keys(kv) # {}

\* -------------------------------------------------------------- delegate

\* The state of the allocator variables when no allocator is running.
AllocIdle ==
    /\ kv = [ip \in Addrs |-> Absent]
    /\ kv0 = kv
    /\ raftIndex = 1
    /\ input = [p \in Procs |->
                    [command |-> "DEL", container_id |-> "c1", requested_ip |-> NoIp]]
    /\ apc = [p \in Procs |-> "done"]
    /\ known = [p \in Procs |-> <<>>]
    /\ chosen = [p \in Procs |-> NoChoice]
    /\ result = [p \in Procs |-> NoReply]

\* What one delegate_command can come to.
\*   SpawnError  Err: the child could not be spawned
\*   IoError     Err: writing stdin or awaiting the child failed
\*   Empty0      exit status 0, nothing on stdout
\*   Empty1      exit status not 0, nothing on stdout
\*   Garbage0    exit status 0, stdout is not a reply
\*   Reply0      exit status 0, stdout is a reply
\*   Text1       exit status not 0, stdout not empty
ChildOutcomes == {"IoError", "Empty0", "Empty1", "Garbage0", "Reply0", "Text1"}

IsErr(outcome) == outcome \in {"SpawnError", "IoError"}

StdoutEmpty(outcome) == outcome \in {"Empty0", "Empty1"}

StatusSuccess(outcome) == outcome \in {"Empty0", "Garbage0", "Reply0"}

\* delegate(): the branches that run delegate_command(plugin, Del) after the
\* first call: Err, empty stdout, exit status not success; only for Add.
NeedsCleanup(command, outcome) ==
    /\ command = "ADD"
    /\ \/ IsErr(outcome)
       \/ StdoutEmpty(outcome)
       \/ ~StatusSuccess(outcome)

\* delegate(): the value returned, from the outcome of the first call and of
\* the cleanup call ("" when there was none).
DelegateResult(plugin, command, main, cleanup) ==
    IF IsErr(main)
    THEN DErr(Delegated(plugin, main, "main"))
    ELSE IF StdoutEmpty(main)
    THEN IF cleanup # "" /\ IsErr(cleanup)
         THEN DErr(Delegated(plugin, cleanup, "cleanup"))
         ELSE DErr(Delegated(plugin, "MissingOutput", "main"))
    ELSE IF StatusSuccess(main)
    THEN IF main = "Reply0"
         THEN DOk(ReplyOf(plugin, command))
         ELSE DErr(Delegated(plugin, "Json", "main"))
    ELSE IF cleanup # "" /\ IsErr(cleanup)
         THEN DErr(Delegated(plugin, cleanup, "cleanup"))
         ELSE DErr(Delegated(plugin, "Generic", "main"))

\* One entry of the log of delegate_command calls; state is "running" or
\* the outcome of the call.
Call(plugin, command, config, role, by, step, state) ==
    [plugin |-> plugin, command |-> command, config |-> config, role |-> role,
     by |-> by, step |-> step, state |-> state]

\* The loop of ipam-delegated that is calling delegate(), and its index.
Caller == IF gpc = "undo_wait" THEN "undo" ELSE "loop"

CallerStep == IF gpc = "undo_wait" THEN uIdx ELSE gIdx

SetLast(log, state) == [log EXCEPT ![Len(log)].state = state]

\* delegate(): entry, up to which_in.
DelegateEnter(plugin, command) ==
    /\ dPlugin' = plugin
    /\ dCommand' = command
    /\ dConfig' = prev_result
    /\ dMain' = ""
    /\ IF plugin \in OnPath
       THEN dpc' = "spawn_main" /\ dResult' = NoDResult
       ELSE dpc' = "ret" /\ dResult' = DErr(MissingPlugin(plugin))

\* delegate_command(plugin, command): spawn of the child.
SpawnMain ==
    /\ dpc = "spawn_main"
    /\ \E spawned \in BOOLEAN :
        IF spawned
        THEN /\ calls' = Append(calls, Call(dPlugin, dCommand, dConfig, "main",
                                            Caller, CallerStep, "running"))
             /\ child' = [plugin |-> dPlugin, command |-> dCommand]
             /\ dpc' = "wait_main"
             /\ UNCHANGED <<dMain, dResult>>
        ELSE /\ calls' = Append(calls, Call(dPlugin, dCommand, dConfig, "main",
                                            Caller, CallerStep, "SpawnError"))
             /\ dMain' = "SpawnError"
             /\ IF NeedsCleanup(dCommand, "SpawnError")
                THEN dpc' = "spawn_cleanup" /\ UNCHANGED dResult
                ELSE /\ dpc' = "ret"
                     /\ dResult' = DelegateResult(dPlugin, dCommand, "SpawnError", "")
             /\ UNCHANGED child
    /\ UNCHANGED <<delegated_plugins, gCommand, gpc, gIdx, undo, uIdx, errors,
                   prev_result, last_result, gReply, dPlugin, dCommand, dConfig>>
    /\ UNCHANGED delegOther

\* delegate_command(plugin, command): the child exits, stdout is read.
WaitMain ==
    /\ dpc = "wait_main"
    /\ \E outcome \in ChildOutcomes :
        /\ dMain' = outcome
        /\ calls' = SetLast(calls, outcome)
        /\ IF NeedsCleanup(dCommand, outcome)
           THEN dpc' = "spawn_cleanup" /\ UNCHANGED dResult
           ELSE /\ dpc' = "ret"
                /\ dResult' = DelegateResult(dPlugin, dCommand, outcome, "")
    /\ child' = NoChild
    /\ UNCHANGED <<delegated_plugins, gCommand, gpc, gIdx, undo, uIdx, errors,
                   prev_result, last_result, gReply, dPlugin, dCommand, dConfig>>
    /\ UNCHANGED delegOther

\* delegate_command(plugin, Del) after a failed Add: spawn of the child.
SpawnCleanup ==
    /\ dpc = "spawn_cleanup"
    /\ \E spawned \in BOOLEAN :
        IF spawned
        THEN /\ calls' = Append(calls, Call(dPlugin, "DEL", dConfig, "cleanup",
                                            Caller, CallerStep, "running"))
             /\ child' = [plugin |-> dPlugin, command |-> "DEL"]
             /\ dpc' = "wait_cleanup"
             /\ UNCHANGED dResult
        ELSE /\ calls' = Append(calls, Call(dPlugin, "DEL", dConfig, "cleanup",
                                            Caller, CallerStep, "SpawnError"))
             /\ dpc' = "ret"
             /\ dResult' = DelegateResult(dPlugin, dCommand, dMain, "SpawnError")
             /\ UNCHANGED child
    /\ UNCHANGED <<delegated_plugins, gCommand, gpc, gIdx, undo, uIdx, errors,
                   prev_result, last_result, gReply, dPlugin, dCommand, dConfig, dMain>>
    /\ UNCHANGED delegOther

\* delegate_command(plugin, Del) after a failed Add: the child exits.
WaitCleanup ==
    /\ dpc = "wait_cleanup"
    /\ \E outcome \in ChildOutcomes :
        /\ calls' = SetLast(calls, outcome)
        /\ dResult' = DelegateResult(dPlugin, dCommand, dMain, outcome)
    /\ dpc' = "ret"
    /\ child' = NoChild
    /\ UNCHANGED <<delegated_plugins, gCommand, gpc, gIdx, undo, uIdx, errors,
                   prev_result, last_result, gReply, dPlugin, dCommand, dConfig, dMain>>
    /\ UNCHANGED delegOther

\* ---------------------------------------------------------- ipam-delegated

\* multi_error: one Delegated error naming every failed plugin.
MultiError(errs) ==
    [kind |-> "error", result |-> NoResult,
     plugins |-> [i \in 1 .. Len(errs) |-> errs[i].plugin],
     details |-> [i \in 1 .. Len(errs) |-> errs[i].err]]

OkReply(res) == [kind |-> "ok", result |-> res, plugins |-> <<>>, details |-> <<>>]

\* CniError::InvalidField / CniError::Generic replied by main itself.
OwnError(kind) == [kind |-> kind, result |-> NoResult, plugins |-> <<>>, details |-> <<>>]

RECURSIVE SeqsOver(_, _)
\* The sequences of distinct elements of S of length n.
SeqsOver(S, n) ==
    IF n = 0 THEN {<<>>}
    ELSE UNION {{Append(q, x) : x \in S \ {q[i] : i \in 1 .. Len(q)}} :
                    q \in SeqsOver(S, n - 1)}

DelegateLists == UNION {SeqsOver(PluginNames, n) : n \in 0 .. MaxDelegates}

DelegInit ==
    /\ delegated_plugins \in DelegateLists
    /\ gCommand \in Commands
    /\ gpc = "start"
    /\ gIdx = 0
    /\ undo = <<>>
    /\ uIdx = 0
    /\ errors = <<>>
    /\ prev_result = RuntimeResult
    /\ last_result = NoResult
    /\ gReply = NoOuterReply
    /\ dpc = "idle"
    /\ dPlugin = ""
    /\ dCommand = ""
    /\ dConfig = NoResult
    /\ dMain = ""
    /\ dResult = NoDResult
    /\ calls = <<>>
    /\ child = NoChild
    /\ AllocIdle
    /\ MainIdle
    /\ RangeIdle
    /\ LaterIdle

\* main: the delegates list is read; an empty list is an InvalidField error.
ReadDelegates ==
    /\ gpc = "start"
    /\ IF delegated_plugins = <<>>
       THEN gpc' = "done" /\ gReply' = OwnError("InvalidField") /\ UNCHANGED gIdx
       ELSE /\ gpc' = IF gCommand = "ADD" THEN "add" ELSE "delcheck"
            /\ gIdx' = 1
            /\ UNCHANGED gReply
    /\ UNCHANGED <<delegated_plugins, gCommand, undo, uIdx, errors, prev_result,
                   last_result, dpc, dPlugin, dCommand, dConfig, dMain, dResult,
                   calls, child>>
    /\ UNCHANGED delegOther

\* Command::Add: the next plugin of the list is pushed on undo and delegated
\* to; past the end of the list the last result is the reply.
AddNext ==
    /\ gpc = "add"
    /\ IF gIdx > Len(delegated_plugins)
       THEN /\ gpc' = "done"
            /\ gReply' = IF last_result # NoResult THEN OkReply(last_result)
                         ELSE OwnError("Generic")
            /\ UNCHANGED <<undo, dpc, dPlugin, dCommand, dConfig, dMain, dResult>>
       ELSE /\ undo' = Append(undo, delegated_plugins[gIdx])
            /\ DelegateEnter(delegated_plugins[gIdx], "ADD")
            /\ gpc' = "add_wait"
            /\ UNCHANGED gReply
    /\ UNCHANGED <<delegated_plugins, gCommand, gIdx, uIdx, errors, prev_result,
                   last_result, calls, child>>
    /\ UNCHANGED delegOther

\* An Add loop that does not store the reply in config.prev_result.
AddReturnKeepPrev ==
    /\ gpc = "add_wait"
    /\ dpc = "ret"
    /\ IF dResult.ok
       THEN /\ last_result' = dResult.reply
            /\ gIdx' = gIdx + 1
            /\ gpc' = "add"
            /\ UNCHANGED <<errors, uIdx, prev_result>>
       ELSE /\ errors' = <<[plugin |-> delegated_plugins[gIdx], err |-> dResult.err]>>
            /\ uIdx' = 1
            /\ gpc' = "undo"
            /\ UNCHANGED <<prev_result, last_result, gIdx>>
    /\ dpc' = "idle"
    /\ UNCHANGED <<delegated_plugins, gCommand, undo, gReply, dPlugin, dCommand,
                   dConfig, dMain, dResult, calls, child>>
    /\ UNCHANGED delegOther

\* Command::Add: delegate() returned; on Err the rollback loop starts.
AddReturn ==
    /\ gpc = "add_wait"
    /\ dpc = "ret"
    /\ IF dResult.ok
       THEN /\ prev_result' = dResult.reply
            /\ last_result' = dResult.reply
            /\ gIdx' = gIdx + 1
            /\ gpc' = "add"
            /\ UNCHANGED <<errors, uIdx>>
       ELSE /\ errors' = <<[plugin |-> delegated_plugins[gIdx], err |-> dResult.err]>>
            /\ uIdx' = 1
            /\ gpc' = "undo"
            /\ UNCHANGED <<prev_result, last_result, gIdx>>
    /\ dpc' = "idle"
    /\ UNCHANGED <<delegated_plugins, gCommand, undo, gReply, dPlugin, dCommand,
                   dConfig, dMain, dResult, calls, child>>
    /\ UNCHANGED delegOther

\* A rollback loop that gives up at the first DEL that fails.
UndoStepAbort(idx, ok) == IF ok THEN idx + 1 ELSE idx + MaxDelegates + 1

\* Command::Add, rollback: the index after entry idx of undo, whose DEL
\* returned ok or not (continue on Err).
UndoStep(idx, ok) == idx + 1

\* Command::Add, rollback: the next entry of undo is delegated to with Del;
\* past the end the collected errors are the reply.
UndoNext ==
    /\ gpc = "undo"
    /\ IF uIdx > Len(undo)
       THEN /\ gpc' = "done"
            /\ gReply' = MultiError(errors)
            /\ UNCHANGED <<dpc, dPlugin, dCommand, dConfig, dMain, dResult>>
       ELSE /\ DelegateEnter(undo[uIdx], "DEL")
            /\ gpc' = "undo_wait"
            /\ UNCHANGED gReply
    /\ UNCHANGED <<delegated_plugins, gCommand, gIdx, undo, uIdx, errors,
                   prev_result, last_result, calls, child>>
    /\ UNCHANGED delegOther

\* Command::Add, rollback: delegate() returned.
UndoReturn ==
    /\ gpc = "undo_wait"
    /\ dpc = "ret"
    /\ IF dResult.ok
       THEN prev_result' = dResult.reply /\ UNCHANGED errors
       ELSE /\ errors' = Append(errors, [plugin |-> undo[uIdx], err |-> dResult.err])
            /\ UNCHANGED prev_result
    /\ uIdx' = UndoStep(uIdx, dResult.ok)
    /\ gpc' = "undo"
    /\ dpc' = "idle"
    /\ UNCHANGED <<delegated_plugins, gCommand, gIdx, undo, last_result, gReply,
                   dPlugin, dCommand, dConfig, dMain, dResult, calls, child>>
    /\ UNCHANGED delegOther

\* Command::Del | Command::Check: the next plugin is delegated to; past the
\* end the reply is the errors, or the last result.
DelCheckNext ==
    /\ gpc = "delcheck"
    /\ IF gIdx > Len(delegated_plugins)
       THEN /\ gpc' = "done"
            /\ gReply' = IF errors # <<>> THEN MultiError(errors)
                         ELSE IF last_result # NoResult THEN OkReply(last_result)
                         ELSE OwnError("Generic")
            /\ UNCHANGED <<dpc, dPlugin, dCommand, dConfig, dMain, dResult>>
       ELSE /\ DelegateEnter(delegated_plugins[gIdx], gCommand)
            /\ gpc' = "delcheck_wait"
            /\ UNCHANGED gReply
    /\ UNCHANGED <<delegated_plugins, gCommand, gIdx, undo, uIdx, errors,
                   prev_result, last_result, calls, child>>
    /\ UNCHANGED delegOther

\* A Del | Check loop that ends at the first plugin that fails.
DelCheckReturnAbort ==
    /\ gpc = "delcheck_wait"
    /\ dpc = "ret"
    /\ IF dResult.ok
       THEN /\ prev_result' = dResult.reply
            /\ last_result' = dResult.reply
            /\ gIdx' = gIdx + 1
            /\ UNCHANGED errors
       ELSE /\ errors' = Append(errors, [plugin |-> delegated_plugins[gIdx],
                                        err |-> dResult.err])
            /\ gIdx' = Len(delegated_plugins) + 1
            /\ UNCHANGED <<prev_result, last_result>>
    /\ gpc' = "delcheck"
    /\ dpc' = "idle"
    /\ UNCHANGED <<delegated_plugins, gCommand, undo, uIdx, gReply, dPlugin,
                   dCommand, dConfig, dMain, dResult, calls, child>>
    /\ UNCHANGED delegOther

\* Command::Del | Command::Check: delegate() returned.
DelCheckReturn ==
    /\ gpc = "delcheck_wait"
    /\ dpc = "ret"
    /\ IF dResult.ok
       THEN /\ prev_result' = dResult.reply
            /\ last_result' = dResult.reply
            /\ UNCHANGED errors
       ELSE /\ errors' = Append(errors, [plugin |-> delegated_plugins[gIdx],
                                        err |-> dResult.err])
            /\ UNCHANGED <<prev_result, last_result>>
    /\ gIdx' = gIdx + 1
    /\ gpc' = "delcheck"
    /\ dpc' = "idle"
    /\ UNCHANGED <<delegated_plugins, gCommand, undo, uIdx, gReply, dPlugin,
                   dCommand, dConfig, dMain, dResult, calls, child>>
    /\ UNCHANGED delegOther

DelegNext ==
    \/ ReadDelegates
    \/ AddNext
    \/ AddReturn
    \/ UndoNext
    \/ UndoReturn
    \/ DelCheckNext
    \/ DelCheckReturn
    \/ SpawnMain
    \/ WaitMain
    \/ SpawnCleanup
    \/ WaitCleanup

SpecDeleg == DelegInit /\ [][DelegNext]_vars

\* --------------------------------------------------- delegation properties

LastCall == calls[Len(calls)]

\* The calls made by the rollback loop for entry i of undo.
UndoCalls(i) ==
    {a \in 1 .. Len(calls) :
        calls[a].by = "undo" /\ calls[a].step = i /\ calls[a].role = "main"}

\* An ipam-delegated ADD has replied after one of its steps failed.
AddFailed == gpc = "done" /\ gCommand = "ADD" /\ gReply.kind = "error"

\* C5: when delegate() is called with ADD on a plugin found on CNI_PATH and
\* returns an error, its last call was the cleanup DEL of the same plugin
\* with the same config bytes, right after the ADD; for DEL and CHECK the
\* only call is the command itself.
C5_AddFailureCleansUp ==
    (dpc = "ret" /\ dPlugin \in OnPath)
        => /\ (dCommand = "ADD" /\ ~dResult.ok)
                => /\ Len(calls) >= 2
                   /\ LastCall.role = "cleanup"
                   /\ LastCall.plugin = dPlugin
                   /\ LastCall.command = "DEL"
                   /\ LastCall.config = dConfig
                   /\ calls[Len(calls) - 1].role = "main"
                   /\ calls[Len(calls) - 1].plugin = dPlugin
                   /\ calls[Len(calls) - 1].command = "ADD"
           /\ (dCommand # "ADD")
                => (LastCall.role = "main" /\ LastCall.command = dCommand)

\* C6: when the ADD call failed and the cleanup DEL failed too, delegate()
\* returns the error of the ADD call: MissingOutput for an empty stdout, the
\* stdout text for an exit status that is not success, the error of the call
\* when it could not be run.
C6_CleanupDoesNotMask ==
    (dpc = "ret" /\ dCommand = "ADD" /\ calls # <<>>)
        => ((LastCall.role = "cleanup" /\ LastCall.state # "Reply0")
                => dResult = DErr(Delegated(dPlugin,
                                    IF IsErr(dMain) THEN dMain
                                    ELSE IF StdoutEmpty(dMain) THEN "MissingOutput"
                                    ELSE "Generic",
                                    "main")))

\* C7: after step k of an ipam-delegated ADD failed, the plugins that had
\* succeeded are sent their rollback DEL in reverse order: a later step's
\* DEL comes before an earlier step's.
C7_RollbackReverseOrder ==
    AddFailed
        => \A i \in 1 .. Len(undo) - 1, j \in 1 .. Len(undo) - 1 :
                i < j => \E a \in UndoCalls(j), b \in UndoCalls(i) : a < b

\* C8: when an ipam-delegated ADD replies after step k failed, every plugin
\* of the steps before k has had a rollback DEL call that is over, whether
\* or not an earlier rollback DEL failed, no child is running, and no plugin
\* after step k was ever called.
C8_RollbackComplete ==
    AddFailed
        => /\ \A i \in 1 .. Len(undo) - 1 :
                \E a \in UndoCalls(i) :
                    /\ calls[a].plugin = delegated_plugins[i]
                    /\ calls[a].command = "DEL"
                    /\ calls[a].state # "running"
           /\ child = NoChild
           /\ \A a \in 1 .. Len(calls) :
                /\ calls[a].step <= Len(undo)
                /\ \A i \in Len(undo) + 1 .. Len(delegated_plugins) :
                        calls[a].plugin # delegated_plugins[i]

\* C8 witness: the third step failed, the rollback DEL of the first plugin
\* failed, and the rollback DEL of the second was made all the same.
C8_Witness ==
    /\ AddFailed
    /\ Len(undo) = 3
    /\ \E a \in UndoCalls(1) : calls[a].state \notin {"running", "Reply0"}
    /\ \E b \in UndoCalls(2) : calls[b].state # "running"

\* ------------------------------------------------------------ Cni::load

\* version.rs COMPATIBLE_VERSIONS "=0.4.0||^1.0.0" matched against version.
Compatible(version) ==
    \/ version = Version(0, 4, 0)
    \/ version.major = 1

\* A check_version that lets every version pass.
CheckVersionAny(version) == TRUE

\* Cni::check_version: TRUE for Ok(()), FALSE for Err(Incompatible).
CheckVersion(version) == Compatible(version)

\* An into_reply that gives every error the generic code.
ErrorCodeGeneric(kind) == 100

\* CniError::into_reply: code and msg of each error kind.
ErrorCode(kind) ==
    CASE kind = "Io" -> 5
      [] kind = "Json" -> 6
      [] kind = "Incompatible" -> 1
      [] kind = "MissingInput" -> 7
      [] kind = "MissingOutput" -> 7
      [] kind = "MissingEnv" -> 4
      [] kind = "InvalidEnv" -> 4
      [] kind = "NoCwd" -> 5
      [] kind = "MissingPlugin" -> 5
      [] kind = "Delegated" -> 5
      [] kind = "Generic" -> 100
      [] kind = "Debug" -> 101
      [] kind = "MissingField" -> 104
      [] kind = "InvalidField" -> 107

ErrorMsg(kind) ==
    CASE kind = "Io" -> "I/O error"
      [] kind = "Json" -> "Cannot decode JSON payload"
      [] kind = "Incompatible" -> "Incompatible CNI version"
      [] kind = "MissingInput" -> "Missing payload"
      [] kind = "MissingOutput" -> "Missing output"
      [] kind = "MissingEnv" -> "Missing environment variable"
      [] kind = "InvalidEnv" -> "Invalid environment variable"
      [] kind = "NoCwd" -> "Bad workdir"
      [] kind = "MissingPlugin" -> "Missing plugin"
      [] kind = "Delegated" -> "Delegated"
      [] kind = "Generic" -> "ERROR"
      [] kind = "Debug" -> "DEBUG"
      [] kind = "MissingField" -> "Missing field"
      [] kind = "InvalidField" -> "Invalid field"

\* CniError::into_reply
IntoReply(kind, cni_version) ==
    [kind |-> "error", code |-> ErrorCode(kind), msg |-> ErrorMsg(kind),
     cni_version |-> cni_version]

\* Cni::from_env, the checks shared by Add, Del and Check up to the variant:
\* container id, JSON payload, version, then CNI_IFNAME and CNI_NETNS.
FromEnvCommand(e, in) ==
    IF e.container_id = "missing" THEN "MissingEnv"
    ELSE IF e.container_id \in {"empty", "bad"} THEN "InvalidEnv"
    ELSE IF in.payload \in {"badjson", "partial"} THEN "Json"
    ELSE IF ~CheckVersion(in.version) THEN "Incompatible"
    ELSE IF e.ifname = "missing" THEN "MissingEnv"
    ELSE IF e.netns = "missing" /\ e.command # "DEL" THEN "MissingEnv"
    ELSE e.command

\* Cni::from_env: the error kind, or the command of the variant returned.
FromEnv(e, in) ==
    IF in.io THEN "Io"
    ELSE IF in.payload = "empty" THEN "MissingInput"
    ELSE IF e.command = "missing" THEN "MissingEnv"
    ELSE IF e.command = "invalid" THEN "InvalidEnv"
    ELSE IF e.command = "VERSION"
         THEN IF in.payload = "badjson" THEN "Json" ELSE "VERSION"
    ELSE FromEnvCommand(e, in)

IsVariant(r) == r \in {"ADD", "DEL", "CHECK", "VERSION"}

\* version.rs SUPPORTED_VERSIONS
SupportedVersions == {Version(0, 4, 0), Version(1, 0, 0)}

\* HashSet::into_iter().collect(): the elements once each, in some order.
RECURSIVE IntoList(_)
IntoList(set) ==
    IF set = {} THEN <<>>
    ELSE LET x == CHOOSE y \in set : TRUE
         IN  <<x>> \o IntoList(set \ {x})

\* A handle_version that appends the input version to a list.
HandleVersionPush(version) ==
    IntoList(SupportedVersions) \o (IF CheckVersion(version) THEN <<version>> ELSE <<>>)

\* Cni::handle_version: the supported versions, the input version inserted
\* into the set when check_version accepts it.
HandleVersionList(version) ==
    IntoList(IF CheckVersion(version)
             THEN SupportedVersions \cup {version}
             ELSE SupportedVersions)

\* Cni::handle_version: the VersionReply.
VersionReply(version) ==
    [kind |-> "version", code |-> 0, msg |-> "",
     cni_version |-> version,
     supported_versions |-> HandleVersionList(version)]

\* The value of each reply key: "none" (absent or default), "prev" (as in
\* prevResult), "own" (set by this plugin), "ext" (prevResult's array with
\* this plugin's entries appended).
NoVals == [k \in ResultKeys |-> "none"]

PrevVals(prev) == [k \in ResultKeys |-> IF k \in prev.keys THEN "prev" ELSE "none"]

\* SuccessReply / IpamSuccessReply with every field at its default.
SuccessReply(cni_version) ==
    [kind |-> "ok", code |-> 0, msg |-> "", cni_version |-> cni_version,
     vals |-> NoVals]

\* host-neigh, host-routes: prevResult decoded as SuccessReply, or a default
\* reply with the config's version; then the plugin's key is extended.
MutatorReply(key, in) ==
    IF in.prev.present
    THEN [SuccessReply(in.prev.version) EXCEPT
            !.vals = [PrevVals(in.prev) EXCEPT
                        ![key] = IF key \in in.prev.keys THEN "ext" ELSE "own"]]
    ELSE [SuccessReply(in.version) EXCEPT !.vals = [NoVals EXCEPT ![key] = "own"]]

\* ipam-ds-static, ipam-ds-nomad: pools of their own, ips of prevResult.
SelectorReply(in) ==
    [SuccessReply(in.version) EXCEPT
        !.vals = [NoVals EXCEPT !["pools"] = "own",
                                !["ips"] = PrevVals(in.prev)["ips"]]]

\* ipam-da-consul: the allocated ip and the default route on ADD, an empty
\* reply on DEL.
AllocatorReply(command, in) ==
    IF command = "ADD"
    THEN [SuccessReply(in.version) EXCEPT
            !.vals = [NoVals EXCEPT !["ips"] = "own", !["routes"] = "own"]]
    ELSE SuccessReply(in.version)

\* The Ok(reply) of each plugin's body. ipam-delegated returns the reply of
\* its last sub-plugin, here one that echoes version and prevResult.
BodySuccess(plugin, command, in) ==
    CASE plugin = "advertise" -> SuccessReply(in.version)
      [] plugin = "host-neigh" -> MutatorReply("hostNeighbours", in)
      [] plugin = "host-routes" -> MutatorReply("hostRoutes", in)
      [] plugin = "ipam-da-consul" -> AllocatorReply(command, in)
      [] plugin = "ipam-delegated" ->
            [SuccessReply(in.version) EXCEPT !.vals = PrevVals(in.prev)]
      [] plugin \in {"ipam-ds-nomad", "ipam-ds-static"} -> SelectorReply(in)

\* What the body needs of prevResult to reach Ok: the host mutators decode
\* it as SuccessReply, whose dns is required; the allocator takes its pool
\* from prevResult.pools[0].
CanSucceed(plugin, in) ==
    CASE plugin \in {"host-neigh", "host-routes"} ->
            in.prev.present => "dns" \in in.prev.keys
      [] plugin = "ipam-da-consul" -> in.prev.present /\ "pools" \in in.prev.keys
      [] OTHER -> TRUE

\* How the body of a plugin's main can end for a command: with a reply
\* (code 0 for success), by exit without reply, or by panic; and the kinds
\* of outside requests made before.
End(end, code, fx) == [end |-> end, code |-> code, effects |-> fx]

Replies(codes, fxs) == {End("reply", c, fx) : c \in codes, fx \in fxs}

BodyEnds(plugin, command) ==
    CASE plugin = "advertise" ->
            IF command = "ADD" THEN {End("exit", 0, {})}
            ELSE IF command = "DEL" THEN Replies({0}, {{}})
            ELSE Replies({100}, {{}})
      [] plugin \in {"host-neigh", "host-routes"} ->
            IF command = "CHECK" THEN Replies({100}, {{}})
            ELSE Replies({0, 6, 100, 107}, {{}, {"netlink"}})
                 \cup Replies({5, 104}, {{}})
      [] plugin = "ipam-da-consul" ->
            Replies({6, 104, 107, 120}, {{}})
            \cup Replies({100, 111, 114}, {{"kv"}})
            \cup (IF command = "CHECK" THEN {End("panic", 101, {"kv"})}
                  ELSE Replies({0, 117, 125}, {{"kv"}}))
            \cup (IF command = "ADD" THEN Replies({122, 124}, {{"kv"}}) ELSE {})
      [] plugin = "ipam-delegated" ->
            Replies({6, 104, 107}, {{}})
            \cup Replies({5}, {{}, {"spawn"}})
            \cup Replies({0}, {{"spawn"}})
      [] plugin = "ipam-ds-nomad" ->
            Replies({6, 104, 120}, {{}})
            \cup Replies({0, 111, 117}, {{"http"}})
      [] plugin = "ipam-ds-static" ->
            Replies({0, 104}, {{}})

EnvValues ==
    [command : {"missing", "invalid", "ADD", "DEL", "CHECK", "VERSION"},
     container_id : {"missing", "empty", "bad", "good"},
     ifname : {"missing", "set"},
     netns : {"missing", "set"},
     path : {"missing", "set"}]

\* Standard input: a read error; no bytes; bytes that are no JSON document
\* with a cniVersion; a network config ("config"); a JSON document with a
\* cniVersion but without another required field of NetworkConfig
\* ("partial").
StdinValues ==
    [io : {TRUE}, payload : {"empty"}, version : {NoVersion}, prev : {NoPrev}]
    \cup [io : {FALSE}, payload : {"empty", "badjson"}, version : {NoVersion},
          prev : {NoPrev}]
    \cup [io : {FALSE}, payload : {"partial"}, version : Versions, prev : {NoPrev}]
    \cup [io : {FALSE}, payload : {"config"}, version : Versions, prev : PrevResults]

MainInit ==
    /\ mPlugin \in Plugins
    /\ env \in EnvValues
    /\ stdin \in StdinValues
    /\ mpc = "load"
    /\ loaded = ""
    /\ stdout = <<>>
    /\ exitStatus = 0 - 1
    /\ panicked = FALSE
    /\ effects = {}
    /\ AllocIdle
    /\ DelegIdle
    /\ RangeIdle
    /\ LaterIdle

\* reply(): one JSON document on stdout, then exit(result.code()).
Reply(r) ==
    /\ stdout' = Append(stdout, r)
    /\ exitStatus' = r.code
    /\ mpc' = "exited"

\* Cni::load: from_env failed; the error is replied with version 1.0.0.
LoadError ==
    /\ mpc = "load"
    /\ ~IsVariant(FromEnv(env, stdin))
    /\ Reply(IntoReply(FromEnv(env, stdin), Version(1, 0, 0)))
    /\ UNCHANGED <<mPlugin, env, stdin, loaded, panicked, effects>>
    /\ UNCHANGED mainOther

\* Cni::load: the VERSION command is answered by handle_version.
LoadVersion ==
    /\ mpc = "load"
    /\ FromEnv(env, stdin) = "VERSION"
    /\ Reply(VersionReply(stdin.version))
    /\ UNCHANGED <<mPlugin, env, stdin, loaded, panicked, effects>>
    /\ UNCHANGED mainOther

\* Cni::load without the Version arm: every variant is returned to main.
LoadCommandAny ==
    /\ mpc = "load"
    /\ IsVariant(FromEnv(env, stdin))
    /\ loaded' = FromEnv(env, stdin)
    /\ mpc' = "body"
    /\ UNCHANGED <<mPlugin, env, stdin, stdout, exitStatus, panicked, effects>>
    /\ UNCHANGED mainOther

\* Cni::load: the Add, Del or Check variant is returned to main.
LoadCommand ==
    /\ mpc = "load"
    /\ FromEnv(env, stdin) \in {"ADD", "DEL", "CHECK"}
    /\ loaded' = FromEnv(env, stdin)
    /\ mpc' = "body"
    /\ UNCHANGED <<mPlugin, env, stdin, stdout, exitStatus, panicked, effects>>
    /\ UNCHANGED mainOther

\* main: the body ran and its result, Ok or Err, is replied.
BodyReply ==
    /\ mpc = "body"
    /\ \E e \in BodyEnds(mPlugin, loaded) :
        /\ e.end = "reply"
        /\ e.code = 0 => CanSucceed(mPlugin, stdin)
        /\ effects' = e.effects
        /\ Reply(IF e.code = 0 THEN BodySuccess(mPlugin, loaded, stdin)
                 ELSE [kind |-> "error", code |-> e.code, msg |-> "",
                       cni_version |-> stdin.version])
    /\ UNCHANGED <<mPlugin, env, stdin, loaded, panicked>>
    /\ UNCHANGED mainOther

\* main: the body calls std::process::exit itself.
BodyExit ==
    /\ mpc = "body"
    /\ \E e \in BodyEnds(mPlugin, loaded) :
        /\ e.end = "exit"
        /\ effects' = e.effects
        /\ exitStatus' = e.code
    /\ mpc' = "exited"
    /\ UNCHANGED <<mPlugin, env, stdin, loaded, stdout, panicked>>
    /\ UNCHANGED mainOther

\* main: the body panics (todo!()); the process ends with status 101.
BodyPanic ==
    /\ mpc = "body"
    /\ \E e \in BodyEnds(mPlugin, loaded) :
        /\ e.end = "panic"
        /\ effects' = e.effects
        /\ exitStatus' = e.code
    /\ panicked' = TRUE
    /\ mpc' = "exited"
    /\ UNCHANGED <<mPlugin, env, stdin, loaded, stdout>>
    /\ UNCHANGED mainOther

MainNext ==
    \/ LoadError
    \/ LoadVersion
    \/ LoadCommand
    \/ BodyReply
    \/ BodyExit
    \/ BodyPanic

SpecMain == MainInit /\ [][MainNext]_vars

\* --------------------------------------------------- invocation properties

\* C9: every invocation ends with exactly one reply on stdout, exit status
\* 0 for a success and the reply's code, in 1..127, for an error, and never
\* by a panic.
C9_OneReplyAndExitCode ==
    mpc = "exited"
        => /\ Len(stdout) = 1
           /\ ~panicked
           /\ stdout[1].kind # "error" => exitStatus = 0
           /\ stdout[1].kind = "error"
                => (exitStatus = stdout[1].code /\ stdout[1].code \in 1 .. 127)

\* An ADD, DEL or CHECK whose input config carries an incompatible version.
IncompatibleInput ==
    /\ env.command \in {"ADD", "DEL", "CHECK"}
    /\ ~stdin.io
    /\ stdin.payload \in {"config", "partial"}
    /\ ~Compatible(stdin.version)

IncompatibleReply ==
    [kind |-> "error", code |-> 1, msg |-> "Incompatible CNI version",
     cni_version |-> Version(1, 0, 0)]

\* C10 as stated: an incompatible input is answered {1, "Incompatible CNI
\* version", 1.0.0} with exit status 1 and no outside request.
C10_IncompatibleAlwaysCode1 ==
    (IncompatibleInput /\ mpc = "exited")
        => (stdout = <<IncompatibleReply>> /\ exitStatus = 1 /\ effects = {})

\* C10 amended: an incompatible input makes no outside request and is
\* answered by Cni::load with version 1.0.0; the reply is {1, "Incompatible
\* CNI version"} with exit status 1 when CNI_CONTAINERID is set and valid
\* and the input decodes as a network config, and otherwise the environment
\* error, code 4, or the JSON error, code 6.
C10_IncompatibleBeforeEffects ==
    IncompatibleInput
        => /\ mpc # "body"
           /\ effects = {}
           /\ mpc = "exited"
                => /\ Len(stdout) = 1
                   /\ stdout[1].cni_version = Version(1, 0, 0)
                   /\ exitStatus = stdout[1].code
                   /\ IF env.container_id = "good" /\ stdin.payload = "config"
                      THEN stdout = <<IncompatibleReply>>
                      ELSE stdout[1].code \in {4, 6}

\* C10 witness: an ADD with a valid container id and version 0.3.0 has been
\* answered.
C10_Witness ==
    /\ IncompatibleInput
    /\ env.command = "ADD"
    /\ env.container_id = "good"
    /\ stdin.payload = "config"
    /\ stdin.version = Version(0, 3, 0)
    /\ mPlugin = "ipam-da-consul"
    /\ mpc = "exited"
    /\ stdout = <<IncompatibleReply>>

\* --------------------------------------------------- input loading errors

\* The invocation ended in Cni::load with from_env's error.
LoadFailed == mpc = "exited" /\ ~IsVariant(FromEnv(env, stdin))

\* The error kinds of input loading with the code each is replied with.
LoadErrorTable ==
    {<<"I/O error", 5>>, <<"Cannot decode JSON payload", 6>>,
     <<"Incompatible CNI version", 1>>, <<"Missing payload", 7>>,
     <<"Missing environment variable", 4>>, <<"Invalid environment variable", 4>>}

\* C11: every failure of input loading is replied as one ErrorReply whose
\* code is the one fixed for its kind (I/O 5, JSON 6, incompatible 1, empty
\* stdin 7, missing env 4, invalid env 4), and the exit status is that code.
C11_LoadErrorCodes ==
    LoadFailed
        => /\ Len(stdout) = 1
           /\ stdout[1].kind = "error"
           /\ <<stdout[1].msg, stdout[1].code>> \in LoadErrorTable
           /\ exitStatus = stdout[1].code
           /\ stdin.io => stdout[1].code = 5
           /\ (~stdin.io /\ stdin.payload = "empty") => stdout[1].code = 7
           /\ (~stdin.io /\ stdin.payload # "empty"
                 /\ env.command \in {"missing", "invalid"}) => stdout[1].code = 4
           /\ (~stdin.io /\ stdin.payload = "badjson" /\ env.command = "VERSION")
                => stdout[1].code = 6
           /\ (~stdin.io /\ stdin.payload = "badjson" /\ env.container_id = "good"
                 /\ env.command \in {"ADD", "DEL", "CHECK"}) => stdout[1].code = 6

\* C11 witness: an ADD with empty stdin was answered code 7, and exited 7.
C11_Witness ==
    /\ LoadFailed
    /\ env.command = "ADD"
    /\ ~stdin.io
    /\ stdin.payload = "empty"
    /\ stdout[1].code = 7
    /\ exitStatus = 7

\* ------------------------------------------------------- success replies

\* The invocation ended with a success reply of the plugin's body.
RepliedOk == mpc = "exited" /\ Len(stdout) = 1 /\ stdout[1].kind = "ok"

\* C12: every success reply carries the cniVersion of the input config,
\* also when the config holds a prevResult with another cniVersion.
C12_SuccessEchoesVersion ==
    RepliedOk => stdout[1].cni_version = stdin.version

\* The reply keys a plugin reads or writes itself.
Understood(plugin) ==
    CASE plugin = "host-neigh" -> {"hostNeighbours"}
      [] plugin = "host-routes" -> {"hostRoutes"}
      [] plugin = "ipam-da-consul" -> {"pools", "ips", "routes"}
      [] plugin \in {"ipam-ds-nomad", "ipam-ds-static"} -> {"pools", "ips"}
      [] OTHER -> {}

\* C13: a selector, the allocator or a host mutator that is given a
\* prevResult replies success with every key of the prevResult that it does
\* not itself understand or modify, unchanged.
C13_PrevResultKeysKept ==
    (/\ RepliedOk
     /\ stdin.prev.present
     /\ mPlugin \in {"host-neigh", "host-routes", "ipam-da-consul",
                     "ipam-ds-nomad", "ipam-ds-static"})
        => \A k \in stdin.prev.keys \ Understood(mPlugin) : stdout[1].vals[k] = "prev"

\* ----------------------------------------------------------------- VERSION

\* The elements of a list.
Elems(list) == {list[i] : i \in 1 .. Len(list)}

\* The invocation was a VERSION command answered by handle_version.
VersionAnswered ==
    /\ mpc = "exited"
    /\ FromEnv(env, stdin) = "VERSION"

\* C14: on VERSION the reply's supportedVersions holds 0.4.0 and 1.0.0, the
\* input cniVersion exactly when it satisfies =0.4.0 || ^1.0.0, nothing
\* else and nothing twice, and the exit status is 0 in either case.
C14_VersionReply ==
    VersionAnswered
        => /\ Len(stdout) = 1
           /\ stdout[1].kind = "version"
           /\ exitStatus = 0
           /\ LET list == stdout[1].supported_versions
              IN  /\ {Version(0, 4, 0), Version(1, 0, 0)} \subseteq Elems(list)
                  /\ Compatible(stdin.version) <=> stdin.version \in Elems(list)
                  /\ Elems(list) \subseteq {Version(0, 4, 0), Version(1, 0, 0), stdin.version}
                  /\ \A i, j \in 1 .. Len(list) : list[i] = list[j] => i = j

\* C14 witness: VERSION with cniVersion 1.1.0 exited 0 with 1.1.0 added to
\* the two static versions.
C14_Witness ==
    /\ VersionAnswered
    /\ stdin.version = Version(1, 1, 0)
    /\ exitStatus = 0
    /\ Len(stdout[1].supported_versions) = 3
    /\ Version(1, 1, 0) \in Elems(stdout[1].supported_versions)

\* ------------------------------------------------------------- iter_free

\* The calls of iter_free made on one range.
MaxCalls == 2

\* Every IpRange over the address space: any subnet, bounds and gateway
\* absent or any address.
Ranges ==
    [subnet : [addr : Addrs, prefix : 0 .. AddrBits],
     range_start : Addrs \cup {NoIp},
     range_end : Addrs \cup {NoIp},
     gateway : Addrs \cup {NoIp}]

RangeInit ==
    /\ rRange \in Ranges
    /\ rCalls = <<>>
    /\ AllocIdle
    /\ DelegIdle
    /\ MainIdle
    /\ LaterIdle

\* iter_free is called and its iterator drained.
IterFreeCall ==
    /\ Len(rCalls) < MaxCalls
    /\ rCalls' = Append(rCalls, IterFree(rRange))
    /\ UNCHANGED rRange
    /\ UNCHANGED rangeOther

RangeNext == IterFreeCall

SpecRange == RangeInit /\ [][RangeNext]_vars

\* rangeStart and rangeEnd are given, in order, and inside the subnet.
WellFormed(range) ==
    /\ range.range_start # NoIp
    /\ range.range_end # NoIp
    /\ range.range_start <= range.range_end
    /\ SubnetContains(range.subnet, range.range_start)
    /\ SubnetContains(range.subnet, range.range_end)

GatewayInRange(range) ==
    /\ range.gateway # NoIp
    /\ range.range_start <= range.gateway
    /\ range.gateway <= range.range_end

\* C15: for a range with rangeStart <= rangeEnd inside the subnet, iter_free
\* yields only addresses of [rangeStart, rangeEnd], never the gateway, in
\* strictly ascending order, each with the subnet's prefix; their number is
\* the size of the interval, less one when the gateway lies in it; a second
\* call yields the same sequence.
C15_IterFree ==
    WellFormed(rRange)
        => \A c \in 1 .. Len(rCalls) :
            LET y == rCalls[c]
            IN  /\ \A i \in 1 .. Len(y) :
                    /\ rRange.range_start <= y[i].ip
                    /\ y[i].ip <= rRange.range_end
                    /\ y[i].ip # rRange.gateway
                    /\ y[i].prefix = rRange.subnet.prefix
                /\ \A i, j \in 1 .. Len(y) : i < j => y[i].ip < y[j].ip
                /\ Len(y) = (rRange.range_end - rRange.range_start + 1)
                            - (IF GatewayInRange(rRange) THEN 1 ELSE 0)
                /\ y = rCalls[1]

\* C15 witness: iter_free was called twice on a range of three addresses
\* with the gateway among them and yielded two addresses.
C15_Witness ==
    /\ WellFormed(rRange)
    /\ GatewayInRange(rRange)
    /\ rRange.range_end = rRange.range_start + 2
    /\ Len(rCalls) = 2
    /\ Len(rCalls[2]) = 2

\* ipnetwork: the broadcast address, the last address of the subnet.
SubnetBroadcast(subnet) == SubnetNetwork(subnet) + SubnetSize(subnet) - 1

\* C16: iter_free never yields the network address or the broadcast address
\* of a subnet (of four addresses or more), so that the first free address
\* of subnet 10.0.0.0/29 with gateway 10.0.0.1 is 10.0.0.2.
C16_SkipsNetworkAndBroadcast ==
    rRange.subnet.prefix <= AddrBits - 2
        => \A c \in 1 .. Len(rCalls) : \A i \in 1 .. Len(rCalls[c]) :
            /\ rCalls[c][i].ip # SubnetNetwork(rRange.subnet)
            /\ rCalls[c][i].ip # SubnetBroadcast(rRange.subnet)

\* ------------------------------------------------------- allocator picks

\* AppError::into_reply: the code of the allocator's own error kinds.
AppErrorCode(kind) ==
    CASE kind = "Url" -> 120
      [] kind = "Http" -> 111
      [] kind = "MissingResource" -> 114
      [] kind = "InvalidResource" -> 117
      [] kind = "PoolFull" -> 122
      [] kind = "NotInPool" -> 124
      [] kind = "ConsulWriteFailed" -> 125

\* AppError::into_reply: the msg of the allocator's own error kinds.
AppErrorMsg(kind) ==
    CASE kind = "Url" -> "Error constructing URL"
      [] kind = "Http" -> "HTTP"
      [] kind = "MissingResource" -> "Missing resource"
      [] kind = "InvalidResource" -> "Invalid resource"
      [] kind = "PoolFull" -> "Pool is full"
      [] kind = "NotInPool" -> "IP not in pool"
      [] kind = "ConsulWriteFailed" -> "KV PUT"

\* The addresses that are keys with a non-null value in a store.
Taken(store) == {ip \in Addrs : store[ip] # Absent /\ store[ip].target # NullValue}

\* Address a of range r of the pool is inside the range's bounds, is not
\* its gateway and is not taken in the store.
Candidate(store, r, a) ==
    LET range == PoolDef[r]
    IN  /\ SubnetContains(range.subnet, a)
        /\ range.range_start # NoIp => range.range_start <= a
        /\ range.range_end # NoIp => a <= range.range_end
        /\ a # range.gateway
        /\ a \notin Taken(store)

Candidates(store) ==
    {c \in (1 .. Len(PoolDef)) \X Addrs : Candidate(store, c[1], c[2])}

\* The first candidate: ranges in declared order, addresses ascending.
FirstCandidate(store) ==
    CHOOSE c \in Candidates(store) :
        \A d \in Candidates(store) : c[1] < d[1] \/ (c[1] = d[1] /\ c[2] <= d[2])

\* C17: when an ADD without requested ip reads the known entries, it picks
\* the first address, ranges in declared order and addresses ascending,
\* that is no key with a non-null value at that time; it ends with PoolFull
\* exactly when there is none, and then without a PUT.
C17_PicksFirstFree ==
    [][\A p \in Procs :
        (apc[p] = "known" /\ apc'[p] # "known")
            => IF Candidates(kv) = {}
               THEN /\ apc'[p] = "done"
                    /\ result'[p].kind = "PoolFull"
                    /\ AppErrorCode(result'[p].kind) = 122
                    /\ AppErrorMsg(result'[p].kind) = "Pool is full"
                    /\ kv' = kv
               ELSE /\ apc'[p] = "put"
                    /\ result'[p].kind = "none"
                    /\ chosen'[p].ip = FirstCandidate(kv)[2]
                    /\ chosen'[p].prefix = PoolDef[FirstCandidate(kv)[1]].subnet.prefix]_vars

\* C17 witness: one ADD without requested ip ended with PoolFull and
\* another one was given an address of the second range.
C17_Witness ==
    \E p, q \in Procs :
        /\ input[p].command = "ADD" /\ input[p].requested_ip = NoIp
        /\ apc[p] = "done" /\ result[p].kind = "PoolFull"
        /\ input[q].command = "ADD" /\ input[q].requested_ip = NoIp
        /\ apc[q] = "done" /\ result[q].kind = "ok" /\ result[q].ip \in {5, 6}

\* The ranges of the pool whose subnet contains an address.
RangesContaining(ip) ==
    {r \in 1 .. Len(PoolDef) : SubnetContains(PoolDef[r].subnet, ip)}

\* An ADD whose requested ip lies in the subnet of no range of the pool.
OutOfPool(p) ==
    /\ input[p].command = "ADD"
    /\ input[p].requested_ip # NoIp
    /\ RangesContaining(input[p].requested_ip) = {}

\* C18: an ADD whose requested ip lies in the subnet of no range ends, once
\* it has read the pool, with NotInPool (code 124, "IP not in pool"), and
\* none of its steps changes the store.
C18_NotInPool ==
    [][\A p \in Procs :
        (OutOfPool(p) /\ apc'[p] # apc[p])
            => /\ kv' = kv
               /\ apc[p] = "probed"
                    => /\ apc'[p] = "done"
                       /\ result'[p].kind = "NotInPool"
                       /\ AppErrorCode(result'[p].kind) = 124
                       /\ AppErrorMsg(result'[p].kind) = "IP not in pool"]_vars

\* C18 witness: an ADD with requested ip 3, which is in no subnet of the
\* pool, ended with NotInPool.
C18_Witness ==
    \E p \in Procs :
        /\ OutOfPool(p)
        /\ input[p].requested_ip = 3
        /\ apc[p] = "done"
        /\ result[p].kind = "NotInPool"

\* An ADD whose requested ip lies in the subnet of exactly one range.
InPool(p) ==
    /\ input[p].command = "ADD"
    /\ input[p].requested_ip # NoIp
    /\ Cardinality(RangesContaining(input[p].requested_ip)) = 1

\* The range whose subnet contains the requested ip.
RangeOf(ip) == PoolDef[CHOOSE r \in RangesContaining(ip) : TRUE]

\* C19: an ADD whose requested ip lies in one range's subnet goes on to the
\* PUT, writes the key of that ip with its container id, and replies that
\* ip with the prefix and the gateway of that range.
C19_RequestedIp ==
    [][\A p \in Procs :
        (InPool(p) /\ apc'[p] # apc[p])
            => LET ip == input[p].requested_ip
               IN  /\ apc[p] = "probed"
                        => /\ apc'[p] = "put"
                           /\ chosen'[p].ip = ip
                   /\ apc[p] = "put"
                        => /\ apc'[p] = "done"
                           /\ kv'[ip].target = input[p].container_id
                           /\ \A a \in Addrs \ {ip} : kv'[a] = kv[a]
                           /\ result'[p] = [kind |-> "ok", ip |-> ip,
                                            prefix |-> RangeOf(ip).subnet.prefix,
                                            gateway |-> RangeOf(ip).gateway]]_vars

\* C19 witness: an ADD with requested ip 7 replied 7 with the prefix of the
\* second range and no gateway, and the key of 7 holds its container id.
C19_Witness ==
    \E p \in Procs :
        /\ InPool(p)
        /\ input[p].requested_ip = 7
        /\ apc[p] = "done"
        /\ result[p].kind = "ok"
        /\ result[p].ip = 7
        /\ result[p].prefix = PoolDef[2].subnet.prefix
        /\ kv[7].target = input[p].container_id

\* ------------------------------------------------------ allocator release

\* The addresses DEL collected for its container at its recursive read.
Collected(p) ==
    {ip \in DOMAIN known[p] : known[p][ip].target = input[p].container_id}

\* A collected key is still in the store with another ModifyIndex.
IndexChanged(p) ==
    \E ip \in Collected(p) : kv[ip] # Absent /\ kv[ip].index # known[p][ip].index

MaxServers == 2

\* What a server of ipam.consul_servers does with the probe GET v1/kv/ipam/:
\* a success status, an error status, no answer, or a URL that cannot be
\* joined with a path.
ServerStates == {"ok", "status", "unreachable", "badurl"}

ServerLists == UNION {[1 .. n -> ServerStates] : n \in 0 .. MaxServers}

\* config.prev_result as the allocator decodes it: absent, not an
\* IpamSuccessReply, without a pools key, with a pools value that is not a
\* list of Pool, with an empty list, with one pool, with one pool that
\* carries a requested ip.
FrontPrevKinds ==
    {"absent", "undecodable", "nopools", "badpools", "empty", "one", "onereq"}

\* pools.first() is None.
NoFirstPool(prev) == prev \in {"absent", "nopools", "empty"}

FrontInputs ==
    {i \in [command : Commands, ipam : BOOLEAN, prev : FrontPrevKinds,
            consul : {"missing", "badjson", "list"}, servers : ServerLists] :
        i.consul # "list" => i.servers = <<>>}

\* The code of the reply for an error of the allocator: AppError::Cni defers
\* to CniError::into_reply.
AppReplyCode(kind) ==
    IF kind \in {"Url", "Http", "MissingResource", "InvalidResource", "PoolFull",
                 "NotInPool", "ConsulWriteFailed"}
    THEN AppErrorCode(kind)
    ELSE ErrorCode(kind)

FrontInit ==
    /\ fIn \in FrontInputs
    /\ fpc = "config"
    /\ fIdx = 0
    /\ fLastErr = "none"
    /\ fUrl = 0
    /\ fRequests = <<>>
    /\ fResult = "none"
    /\ AllocIdle
    /\ DelegIdle
    /\ MainIdle
    /\ RangeIdle
    /\ HostIdle
    /\ ConfigIdle
    /\ NeighIdle
    /\ TableIdle

FrontFail(kind) ==
    /\ fpc' = "done"
    /\ fResult' = kind

\* main: ipam, prev_result, pools and consul_servers are read from the config.
FrontConfig ==
    /\ fpc = "config"
    /\ IF ~fIn.ipam THEN FrontFail("MissingField")
       ELSE IF fIn.prev = "undecodable" THEN FrontFail("Json")
       ELSE IF fIn.prev = "badpools" THEN FrontFail("Json")
       ELSE IF fIn.consul = "missing" THEN FrontFail("MissingField")
       ELSE IF fIn.consul = "badjson" THEN FrontFail("Json")
       ELSE /\ fpc' = "probe"
            /\ UNCHANGED fResult
    /\ fIdx' = 1
    /\ UNCHANGED <<fIn, fLastErr, fUrl, fRequests>>
    /\ UNCHANGED frontOther

\* The path of the probe, joined to a server's URL.
ProbePath == "v1/kv/ipam/"

\* A good_server that takes any server that answers, whatever the status.
FrontProbeAnyAnswer ==
    /\ fpc = "probe"
    /\ fIdx <= Len(fIn.servers)
    /\ LET state == fIn.servers[fIdx]
       IN  /\ fRequests' = IF state = "badurl" THEN fRequests
                           ELSE Append(fRequests,
                                [method |-> "GET", server |-> fIdx, path |-> ProbePath])
           /\ CASE state = "badurl" ->
                    /\ FrontFail("Url")
                    /\ UNCHANGED <<fIdx, fLastErr, fUrl>>
                [] state \in {"ok", "status"} ->
                    /\ fUrl' = fIdx
                    /\ fpc' = "select"
                    /\ UNCHANGED <<fIdx, fLastErr, fResult>>
                [] state = "unreachable" ->
                    /\ fLastErr' = "Http"
                    /\ fIdx' = fIdx + 1
                    /\ UNCHANGED <<fpc, fUrl, fResult>>
    /\ UNCHANGED fIn
    /\ UNCHANGED frontOther

\* good_server: one turn of the loop over the list, the probe of one server.
FrontProbe ==
    /\ fpc = "probe"
    /\ fIdx <= Len(fIn.servers)
    /\ LET state == fIn.servers[fIdx]
       IN  /\ fRequests' = IF state = "badurl" THEN fRequests
                           ELSE Append(fRequests,
                                [method |-> "GET", server |-> fIdx, path |-> ProbePath])
           /\ CASE state = "badurl" ->
                    /\ FrontFail("Url")
                    /\ UNCHANGED <<fIdx, fLastErr, fUrl>>
                [] state = "ok" ->
                    /\ fUrl' = fIdx
                    /\ fpc' = "select"
                    /\ UNCHANGED <<fIdx, fLastErr, fResult>>
                [] state = "status" ->
                    /\ fLastErr' = "Generic"
                    /\ fIdx' = fIdx + 1
                    /\ UNCHANGED <<fpc, fUrl, fResult>>
                [] state = "unreachable" ->
                    /\ fLastErr' = "Http"
                    /\ fIdx' = fIdx + 1
                    /\ UNCHANGED <<fpc, fUrl, fResult>>
    /\ UNCHANGED fIn
    /\ UNCHANGED frontOther

\* good_server: the list is exhausted and no server answered with success.
FrontProbeEnd ==
    /\ fpc = "probe"
    /\ fIdx > Len(fIn.servers)
    /\ FrontFail(IF fLastErr # "none" THEN fLastErr ELSE "InvalidField")
    /\ UNCHANGED <<fIn, fIdx, fLastErr, fUrl, fRequests>>
    /\ UNCHANGED frontOther

\* main: pools.first(), after good_server has returned a server. With a
\* pool the block goes on to the match on the command.
FrontSelect ==
    /\ fpc = "select"
    /\ IF NoFirstPool(fIn.prev)
       THEN FrontFail("MissingResource")
       ELSE /\ fpc' = "command"
            /\ UNCHANGED fResult
    /\ UNCHANGED <<fIn, fIdx, fLastErr, fUrl, fRequests>>
    /\ UNCHANGED frontOther

\* The requests of a command, in the order main sends them: pool_def, then
\* pool_known when no ip was requested, then the PUT of the key; for DEL
\* pool_known, then the transaction of delete_all. CHECK sends none.
CommandRequests(command, prev) ==
    CASE command = "ADD" /\ prev = "one" ->
            << [method |-> "GET", path |-> "v1/kv/ipam/pool"],
               [method |-> "GET", path |-> "v1/kv/ipam/pool/?recurse"],
               [method |-> "PUT", path |-> "v1/kv/ipam/pool/ip?cas=0"] >>
      [] command = "ADD" /\ prev = "onereq" ->
            << [method |-> "GET", path |-> "v1/kv/ipam/pool"],
               [method |-> "PUT", path |-> "v1/kv/ipam/pool/ip"] >>
      [] command = "DEL" ->
            << [method |-> "GET", path |-> "v1/kv/ipam/pool/?recurse"],
               [method |-> "PUT", path |-> "v1/txn"] >>
      [] OTHER -> <<>>

\* The errors that end the invocation at a request or in the code between
\* it and the next request.
StepErrors(command, prev, path) ==
    CASE path = "v1/kv/ipam/pool" ->
            {"Http", "MissingResource", "InvalidResource"}
            \cup (IF prev = "onereq" THEN {"NotInPool"} ELSE {})
      [] path = "v1/kv/ipam/pool/?recurse" ->
            {"Http", "InvalidResource"}
            \cup (IF command = "ADD" THEN {"PoolFull"} ELSE {})
      [] path = "v1/txn" -> {"Http", "ConsulWriteFailed", "Generic"}
      [] OTHER -> {"Http", "ConsulWriteFailed"}

\* The requests sent after good_server returned.
CommandSent == SelectSeq(fRequests, LAMBDA r : r.path # ProbePath)

\* main, Command::Add and Command::Del: the next request of the command,
\* sent to the server good_server returned.
FrontRequest ==
    /\ fpc = "command"
    /\ fIn.command # "CHECK"
    /\ LET reqs == CommandRequests(fIn.command, fIn.prev)
           k == Len(CommandSent) + 1
       IN  /\ fRequests' = Append(fRequests,
                    [method |-> reqs[k].method, server |-> fUrl, path |-> reqs[k].path])
           /\ \E outcome \in {"ok"} \cup StepErrors(fIn.command, fIn.prev, reqs[k].path) :
                IF outcome = "ok" /\ k < Len(reqs)
                THEN UNCHANGED <<fpc, fResult>>
                ELSE FrontFail(outcome)
    /\ UNCHANGED <<fIn, fIdx, fLastErr, fUrl>>
    /\ UNCHANGED frontOther

\* main, Command::Check: todo!().
FrontCheck ==
    /\ fpc = "command"
    /\ fIn.command = "CHECK"
    /\ FrontFail("panic")
    /\ UNCHANGED <<fIn, fIdx, fLastErr, fUrl, fRequests>>
    /\ UNCHANGED frontOther

FrontNext ==
    \/ FrontConfig
    \/ FrontProbe
    \/ FrontProbeEnd
    \/ FrontSelect
    \/ FrontRequest
    \/ FrontCheck

SpecFront == FrontInit /\ [][FrontNext]_vars

\* C21: an ADD whose prevResult is absent or has no pools[0], and whose
\* config has ipam and a list of servers, ends with Missing resource (code
\* 114) whatever the servers do, and no server was sent a request before
\* the pool was looked at.
C21_PoolCheckedFirst ==
    (/\ fpc = "done"
     /\ fIn.command = "ADD"
     /\ fIn.ipam
     /\ fIn.consul = "list"
     /\ NoFirstPool(fIn.prev))
        => /\ AppReplyCode(fResult) = 114
           /\ fRequests = <<>>

\* ------------------------------------- host mutators (host-neigh, host-routes)

MaxDirectives == 2

HostPlugins == {"host-neigh", "host-routes"}

\* The key of the config that holds the expression, and the key of the
\* reply that is extended.
ExprKey(plugin) == IF plugin = "host-neigh" THEN "neigh" ELSE "routing"

ReplyKey(plugin) == IF plugin = "host-neigh" THEN "hostNeighbours" ELSE "hostRoutes"

JsonString == [type |-> "string", n |-> 0]

JsonNumber(n) == [type |-> "number", n |-> n]

\* The values of the config keys neigh and routing.
ConfigValues == {JsonAbsent, JsonString, JsonNumber(0), JsonNumber(2),
                 JsonNumber(11), JsonNumber(300)}

\* A tries that takes the number as it is.
TriesUnclamped(val) == IF val.type = "number" THEN val.n ELSE 3

\* tries: the value of the key neigh as u64, then as u8, 0 and above 10
\* becoming 10; 3 when any of these gives None.
Tries(val) ==
    IF val.type = "number" /\ val.n <= 255
    THEN IF val.n = 0 \/ val.n > 10 THEN 10 ELSE val.n
    ELSE 3

\* A directive as decoded from the evaluated array. critical is a key of
\* the JSON object that Neigh and Routing have no field for; complete says
\* lladdr is present (Neigh), device or gateway is present (Routing).
Directives(plugin) ==
    [critical : IF plugin = "host-neigh" THEN BOOLEAN ELSE {TRUE},
     complete : BOOLEAN]

DirectiveLists(plugin) ==
    UNION {[1 .. n -> Directives(plugin)] : n \in 0 .. MaxDirectives}

\* A validate that accepts every directive.
ValidateAny(plugin, command, d) == TRUE

\* Neigh::validate, Routing::validate
Validate(plugin, command, d) ==
    IF plugin = "host-neigh"
    THEN ~(~d.complete /\ command # "DEL")
    ELSE d.complete

\* Trial::new
NewTrial == [attempts |-> 0, last_error |-> FALSE, ok |-> FALSE, done |-> FALSE]

\* What prevResult holds: its cniVersion, whether it has dns, its ips
\* (absent, entries of the fields Ip has, or entries that also carry the
\* version field of a 0.4.0 result), a key no plugin knows, and the value
\* under the plugin's own key (absent, not an array, an array of one entry).
HostPrevs ==
    {NoHostPrev} \cup
    [present : {TRUE}, version : {Version(0, 4, 0), Version(1, 0, 0)}, dns : BOOLEAN,
     ips : {"absent", "plain", "versioned"}, custom : BOOLEAN,
     own : {"absent", "nonarray", "array"}]

\* The entries of prevResult's array under the plugin's key.
Existing(prev) == IF prev.own = "array" THEN <<"old">> ELSE <<>>

\* serde's decoding of Vec<Ip>: absent gives the empty list, a field Ip does
\* not have is dropped.
DecodeIps(ips) ==
    CASE ips = "absent" -> "empty"
      [] ips = "plain" -> "plain"
      [] ips = "versioned" -> "plain"

\* FuturesUnordered: the outputs in the order of completion.
FuturesUnordered(completed) == completed

\* FuturesOrdered collected into a Vec: the k-th output is the output of
\* the k-th future pushed, whatever the order of completion.
FuturesOrdered(completed) == [k \in 1 .. Len(completed) |-> k]

\* main: the outcomes whose last_error is set.
Aggregated(command, directives, trials, outcomes) ==
    SelectSeq(outcomes, LAMBDA i : trials[i].last_error)

HostErrorReply(kind) ==
    [NoHostReply EXCEPT !.kind = "error", !.code = ErrorCode(kind),
                        !.version = hIn.version]

\* main: the reply starts from prevResult decoded as SuccessReply, or from
\* a default reply when there is none; the outcomes are appended to the
\* array under the plugin's key.
HostSuccessReply(prev, outcomes) ==
    IF ~prev.present
    THEN [NoHostReply EXCEPT !.kind = "ok", !.version = hIn.version, !.dns = TRUE,
                             !.ips = "empty", !.entries = outcomes]
    ELSE IF ~prev.dns THEN HostErrorReply("Json")
    ELSE IF prev.own = "nonarray" THEN HostErrorReply("InvalidField")
    ELSE [kind |-> "ok", code |-> 0, version |-> prev.version, dns |-> TRUE,
          ips |-> DecodeIps(prev.ips), custom |-> prev.custom,
          entries |-> Existing(prev) \o outcomes]

HostInputs ==
    {i \in [plugin : HostPlugins, command : Commands, version : {Version(1, 0, 0)},
            neigh : ConfigValues, routing : {JsonAbsent, JsonString, JsonNumber(2)}] :
        i.plugin = "host-neigh" => i.routing = JsonAbsent}

HostInit ==
    /\ hIn \in HostInputs
    /\ hpc = "start"
    /\ hTries = 0
    /\ hDirectives = <<>>
    /\ hTrials = <<>>
    /\ hCompleted = <<>>
    /\ hOutcomes = <<>>
    /\ hErrors = <<>>
    /\ hPrev = NoHostPrev
    /\ hReply = NoHostReply
    /\ hNetlink = 0
    /\ hHost = {}
    /\ AllocIdle
    /\ DelegIdle
    /\ MainIdle
    /\ RangeIdle
    /\ FrontIdle
    /\ ConfigIdle
    /\ NeighIdle
    /\ TableIdle

HostFail(kind) ==
    /\ hpc' = "done"
    /\ hReply' = HostErrorReply(kind)

\* main: the CHECK refusal, tries and the expression.
HostConfig ==
    /\ hpc = "start"
    /\ LET expr == hIn[ExprKey(hIn.plugin)]
       IN  IF hIn.command = "CHECK"
           THEN HostFail("Generic") /\ UNCHANGED hTries
           ELSE /\ hTries' = Tries(hIn.neigh)
                /\ IF expr.type = "absent" THEN HostFail("MissingField")
                   ELSE IF expr.type # "string" THEN HostFail("InvalidField")
                   ELSE hpc' = "eval" /\ UNCHANGED hReply
    /\ UNCHANGED <<hIn, hDirectives, hTrials, hCompleted, hOutcomes, hErrors, hPrev,
                   hNetlink, hHost>>
    /\ UNCHANGED hostOther

\* main: the expression is evaluated under the timeout, the netlink
\* connection is opened, the result is decoded and every directive
\* validated into a Trial. The connection is a socket: no request is sent
\* on it before a Trial runs.
HostEval ==
    /\ hpc = "eval"
    /\ \E out \in {"timeout", "jq", "netlink", "notjson", "list"} :
        CASE out \in {"timeout", "jq"} ->
                HostFail("Generic") /\ UNCHANGED <<hDirectives, hTrials>>
          [] out = "netlink" -> HostFail("Io") /\ UNCHANGED <<hDirectives, hTrials>>
          [] out = "notjson" -> HostFail("Json") /\ UNCHANGED <<hDirectives, hTrials>>
          [] out = "list" ->
                \E ds \in DirectiveLists(hIn.plugin) :
                    IF \A i \in 1 .. Len(ds) : Validate(hIn.plugin, hIn.command, ds[i])
                    THEN /\ hDirectives' = ds
                         /\ hTrials' = [i \in 1 .. Len(ds) |-> NewTrial]
                         /\ hpc' = "run"
                         /\ UNCHANGED hReply
                    ELSE /\ HostFail("Generic")
                         /\ hDirectives' = ds
                         /\ UNCHANGED hTrials
    /\ UNCHANGED <<hIn, hTries, hCompleted, hOutcomes, hErrors, hPrev, hNetlink, hHost>>
    /\ UNCHANGED hostOther

\* Trial::run: one turn of the loop of the Trial of directive i: try_once,
\* then break, or last_error and the sleep; the Trial is returned after the
\* break or the last turn.
TrialTry(i) ==
    /\ hpc = "run"
    /\ i \in 1 .. Len(hTrials)
    /\ ~hTrials[i].done
    /\ hTrials[i].attempts < hTries
    /\ \E ok \in BOOLEAN :
        LET n == hTrials[i].attempts + 1
            over == ok \/ n = hTries
        IN  /\ hTrials' = [hTrials EXCEPT ![i] =
                    [attempts |-> n,
                     last_error |-> IF ok THEN hTrials[i].last_error ELSE TRUE,
                     ok |-> ok,
                     done |-> over]]
            /\ hCompleted' = IF over THEN Append(hCompleted, i) ELSE hCompleted
            /\ hHost' = IF ok /\ hIn.command = "ADD" THEN hHost \cup {i} ELSE hHost
    /\ hNetlink' = hNetlink + 1
    /\ UNCHANGED <<hIn, hpc, hTries, hDirectives, hOutcomes, hErrors, hPrev, hReply>>
    /\ UNCHANGED hostOther

\* A main that undoes the directives that succeeded when it replies with
\* an error.
HostCollectRollback ==
    /\ hpc = "run"
    /\ \A i \in 1 .. Len(hTrials) : hTrials[i].done
    /\ LET outcomes == FuturesOrdered(hCompleted)
           errs == Aggregated(hIn.command, hDirectives, hTrials, outcomes)
       IN  /\ hOutcomes' = outcomes
           /\ hErrors' = errs
           /\ IF errs # <<>>
              THEN /\ hReply' = HostErrorReply("Generic")
                   /\ hHost' = {}
                   /\ UNCHANGED hPrev
              ELSE /\ \E prev \in HostPrevs :
                        /\ hPrev' = prev
                        /\ hReply' = HostSuccessReply(prev, outcomes)
                   /\ UNCHANGED hHost
    /\ hpc' = "done"
    /\ UNCHANGED <<hIn, hTries, hDirectives, hTrials, hCompleted, hNetlink>>
    /\ UNCHANGED hostOther

\* main: the stream of the trials has ended; the errors are joined, and
\* without error the reply is built from prevResult.
HostCollect ==
    /\ hpc = "run"
    /\ \A i \in 1 .. Len(hTrials) : hTrials[i].done
    /\ LET outcomes == FuturesOrdered(hCompleted)
           errs == Aggregated(hIn.command, hDirectives, hTrials, outcomes)
       IN  /\ hOutcomes' = outcomes
           /\ hErrors' = errs
           /\ IF errs # <<>>
              THEN /\ hReply' = HostErrorReply("Generic")
                   /\ UNCHANGED hPrev
              ELSE \E prev \in HostPrevs :
                    /\ hPrev' = prev
                    /\ hReply' = HostSuccessReply(prev, outcomes)
    /\ hpc' = "done"
    /\ UNCHANGED <<hIn, hTries, hDirectives, hTrials, hCompleted, hNetlink, hHost>>
    /\ UNCHANGED hostOther

HostNext ==
    \/ HostConfig
    \/ HostEval
    \/ \E i \in 1 .. MaxDirectives : TrialTry(i)
    \/ HostCollect

SpecHost == HostInit /\ [][HostNext]_vars

\* The tasks of async_std's executor are polled until they end: a step
\* that stays possible is taken.
SpecHostFair == SpecHost /\ WF_vars(HostNext)

\* ---------------------------------------------- host mutator properties

\* The trials have been created and tries has its value.
TriesSet == hpc \in {"eval", "run", "done"} /\ hIn.command # "CHECK"

BudgetInBounds ==
    TriesSet => /\ hTries \in 1 .. 10
                /\ hIn.neigh.type # "number" => hTries = 3
                /\ \A i \in 1 .. Len(hTrials) : hTrials[i].attempts <= hTries

NoAttemptAfterSuccess ==
    \A i \in 1 .. Len(hTrials) : hTrials[i].ok => hTrials'[i] = hTrials[i]

\* C22: the attempt budget of every directive is 3 when the number of tries
\* is not configured and within 1..10 always; a directive is attempted at
\* most that many times and never again after an attempt that succeeded;
\* and the invocation ends.
C22_AttemptBudget ==
    /\ []BudgetInBounds
    /\ [][NoAttemptAfterSuccess]_vars
    /\ <>(hpc = "done")

\* A configured budget of 10: one directive used it up, the other succeeded
\* at its second attempt.
C22_Witness ==
    /\ hpc = "done"
    /\ hIn.neigh.type = "number"
    /\ hTries = 10
    /\ Len(hTrials) = 2
    /\ hTrials[1].attempts = 10 /\ ~hTrials[1].ok
    /\ hTrials[2].attempts = 2 /\ hTrials[2].ok

\* The stream of the trials has ended and main has gone on to the reply.
TrialsCollected == hpc = "done" /\ Len(hTrials) > 0 /\ \A i \in 1 .. Len(hTrials) : hTrials[i].done

\* Directive i failed at every attempt of its budget.
FailedThroughout(i) == hTrials[i].done /\ ~hTrials[i].ok

\* C23: on host-neigh ADD the error of a neighbour that failed at every
\* attempt is in the joined error when the neighbour is critical, and is not
\* when it is marked critical=false.
C23_NonCriticalDropped ==
    (TrialsCollected /\ hIn.plugin = "host-neigh" /\ hIn.command = "ADD")
        => \A i \in 1 .. Len(hTrials) :
                FailedThroughout(i)
                    => (hDirectives[i].critical
                            <=> \E k \in 1 .. Len(hErrors) : hErrors[k] = i)

\* C24: whatever the order in which the trials complete, the entries
\* appended to the reply's array are the directives in the order of the
\* evaluated array, after the entries prevResult had.
C24_EntriesInInputOrder ==
    (TrialsCollected /\ hReply.kind = "ok")
        => hReply.entries = Existing(hPrev) \o [k \in 1 .. Len(hDirectives) |-> k]

\* Two directives were applied, the second completed first, and the reply
\* lists them after the existing entry.
C24_Witness ==
    /\ TrialsCollected
    /\ hReply.kind = "ok"
    /\ hCompleted = <<2, 1>>
    /\ hReply.entries = <<"old", 1, 2>>

\* C25: when no directive error remains and the config has a prevResult,
\* the reply is a success that holds the existing entries of the plugin's
\* array followed by the applied directives, and every other key of
\* prevResult with its value.
C25_ReplyExtendsPrev ==
    (hpc = "done" /\ hIn.command # "CHECK" /\ hTries > 0 /\ hPrev.present)
        => /\ hReply.kind = "ok"
           /\ hReply.entries = Existing(hPrev) \o hOutcomes
           /\ hReply.version = hPrev.version
           /\ hReply.custom = hPrev.custom
           /\ hReply.dns = hPrev.dns
           /\ hPrev.ips # "absent" => hReply.ips = hPrev.ips

\* C28: when every directive succeeded, at its first attempt or at a later
\* one within its budget, the joined error is empty and the reply is not
\* the joined error.
C28_RetrySuccessIsSuccess ==
    (TrialsCollected /\ \A i \in 1 .. Len(hTrials) : hTrials[i].ok)
        => hErrors = <<>> /\ hReply.code # ErrorCode("Generic")

\* ----------------------------------------- NetworkConfig through JSON

\* The forms of each key of the input document. cniVersion: a semver
\* string, a string that is no semver, a number. ipam: null, an object
\* without type, an object with type; ipamKey is a key of that object the
\* library has no field for. dns: an object with a key Dns has no field for.
\* custom is a top-level key the library has no field for.
ConfigDocs ==
    {d \in [cniVersion : {"absent", "0.4.0", "1.0.0", "1.0", "number"},
            ipMasq : {"absent", "false", "true"},
            args : {"absent", "empty", "some"},
            ipam : {"absent", "null", "notype", "typed"},
            ipamKey : {"absent", "null", "value"},
            dns : {"absent", "null", "empty", "extra"},
            prevResult : {"absent", "null", "value"},
            custom : {"absent", "null", "value"}] :
        d.ipam # "typed" => d.ipamKey = "absent"}

\* A struct without a flattened map: a key it has no field for is dropped.
NoFlatten(val) == "absent"

\* #[serde(flatten)] specific: HashMap<String, Value>: a key the struct has
\* no field for is kept with its value, null included.
Flatten(val) == val

\* deserialize_version: a string that Version::from_str accepts.
VersionParses(val) == val \in {"0.4.0", "1.0.0"}

\* serde_json::from_slice::<NetworkConfig>
ParseConfig(d) ==
    IF ~VersionParses(d.cniVersion) \/ d.ipam = "notype"
    THEN NoConfig
    ELSE [ok |-> TRUE,
          cni_version |-> d.cniVersion,
          ip_masq |-> (d.ipMasq = "true"),
          args |-> IF d.args = "some" THEN "some" ELSE "empty",
          ipam |-> IF d.ipam = "typed" THEN "some" ELSE "none",
          ipam_specific |-> IF d.ipam = "typed" THEN Flatten(d.ipamKey) ELSE "absent",
          dns |-> IF d.dns \in {"absent", "null"} THEN "none" ELSE "empty",
          prev_result |-> IF d.prevResult = "value" THEN "value" ELSE "none",
          specific |-> Flatten(d.custom)]

\* serde_json::to_vec(config)
SerialiseConfig(c) ==
    [cniVersion |-> c.cni_version,
     ipMasq |-> IF c.ip_masq THEN "true" ELSE "false",
     args |-> IF c.args = "empty" THEN "absent" ELSE "some",
     ipam |-> IF c.ipam = "none" THEN "absent" ELSE "typed",
     ipamKey |-> c.ipam_specific,
     dns |-> IF c.dns = "none" THEN "absent" ELSE "empty",
     prevResult |-> IF c.prev_result = "none" THEN "absent" ELSE "value",
     custom |-> c.specific]

ConfigInit ==
    /\ cDoc \in ConfigDocs
    /\ cpc = "input"
    /\ cConfig = NoConfig
    /\ cBytes = NoDoc
    /\ cAgain = NoConfig
    /\ AllocIdle
    /\ DelegIdle
    /\ MainIdle
    /\ RangeIdle
    /\ FrontIdle
    /\ HostIdle
    /\ NeighIdle
    /\ TableIdle

\* Cni::from_env: the payload is decoded as NetworkConfig.
ConfigParse ==
    /\ cpc = "input"
    /\ cConfig' = ParseConfig(cDoc)
    /\ cpc' = IF cConfig'.ok THEN "parsed" ELSE "failed"
    /\ UNCHANGED <<cDoc, cBytes, cAgain>>
    /\ UNCHANGED configOther

\* delegate: config_bytes, written to the sub-plugin's standard input.
ConfigSerialise ==
    /\ cpc = "parsed"
    /\ cBytes' = SerialiseConfig(cConfig)
    /\ cpc' = "sent"
    /\ UNCHANGED <<cDoc, cConfig, cAgain>>
    /\ UNCHANGED configOther

\* Cni::from_env in the sub-plugin: config_bytes decoded as NetworkConfig.
ConfigReparse ==
    /\ cpc = "sent"
    /\ cAgain' = ParseConfig(cBytes)
    /\ cpc' = "reparsed"
    /\ UNCHANGED <<cDoc, cConfig, cBytes>>
    /\ UNCHANGED configOther

ConfigNext ==
    \/ ConfigParse
    \/ ConfigSerialise
    \/ ConfigReparse

SpecConfig == ConfigInit /\ [][ConfigNext]_vars

\* C26: a config that decoded from the input decodes from its own
\* serialisation to an equal value, and the top-level key and the ipam key
\* that the library has no field for are in the serialisation with the value
\* they had in the input.
C26_ConfigRoundTrip ==
    /\ cpc \in {"sent", "reparsed"} =>
            /\ cBytes.custom = cDoc.custom
            /\ cBytes.ipamKey = cDoc.ipamKey
    /\ cpc = "reparsed" => cAgain.ok /\ cAgain = cConfig

\* The round trip of a document with a custom top-level key, a custom ipam
\* key, a dns object with a key that is dropped and no ipMasq.
C26_Witness ==
    /\ cpc = "reparsed"
    /\ cDoc.custom = "value" /\ cDoc.ipamKey = "value" /\ cDoc.dns = "extra"
    /\ cDoc.ipMasq = "absent" /\ cDoc.prevResult = "null"
    /\ cBytes # cDoc
    /\ cAgain.specific = "value" /\ cAgain.ipam_specific = "value"

\* ------------------------------------------ neighbour directive through JSON

\* The strings of lladdr: MAC addresses as Display of MacAddr6 writes them,
\* MAC addresses in the other notations its FromStr accepts, and strings
\* that are no MAC address.
CanonicalMacs == {"00:00:00:00:00:00", "AA:BB:CC:DD:EE:FF"}

OtherMacs == {"aa:bb:cc:dd:ee:ff", "AA-BB-CC-DD-EE-FF", "aabb.ccdd.eeff"}

LladdrStrings == CanonicalMacs \cup OtherMacs \cup {"eth1", "aa:bb", ""}

\* MacAddr::from_str: the address a string denotes, written as Display
\* writes it; ok is FALSE for a string that is no MAC address.
MacFromStr(str) ==
    IF str \in CanonicalMacs THEN [ok |-> TRUE, mac |-> str]
    ELSE IF str \in OtherMacs THEN [ok |-> TRUE, mac |-> "AA:BB:CC:DD:EE:FF"]
    ELSE [ok |-> FALSE, mac |-> ""]

\* The type of Neigh::lladdr: Option<MacAddr> in main.rs, Option<MacOrDevice>
\* in the Neigh the tests of macordevice.rs build.
LladdrTypes == {"MacAddr", "MacOrDevice"}

\* Deserialize for Neigh. MacAddr: the string must parse. MacOrDevice
\* (untagged): Mac when the string parses, Device with the string otherwise.
DecodeNeigh(lltype, doc) ==
    IF doc.lladdr = "absent"
    THEN [ok |-> TRUE, address |-> doc.address, device |-> doc.device,
          variant |-> "None", lladdr |-> ""]
    ELSE IF MacFromStr(doc.lladdr).ok
    THEN [ok |-> TRUE, address |-> doc.address, device |-> doc.device,
          variant |-> "Mac", lladdr |-> MacFromStr(doc.lladdr).mac]
    ELSE IF lltype = "MacOrDevice"
    THEN [ok |-> TRUE, address |-> doc.address, device |-> doc.device,
          variant |-> "Device", lladdr |-> doc.lladdr]
    ELSE NoNeigh

\* Serialize for Neigh: lladdr is left out when None, and is the Display of
\* the address or the device string otherwise.
SerialiseNeigh(n) ==
    [address |-> n.address, device |-> n.device,
     lladdr |-> IF n.variant = "None" THEN "absent" ELSE n.lladdr]

NeighDocs ==
    [address : {"1.2.3.4"}, device : {"eth0", "br0"},
     lladdr : LladdrStrings \cup {"absent"}]

\* The Neigh values that code can build for each type of lladdr.
NeighValues(lltype) ==
    {n \in [ok : {TRUE}, address : {"1.2.3.4"}, device : {"eth0", "br0"},
            variant : {"None", "Mac", "Device"}, lladdr : LladdrStrings] :
        /\ n.variant = "None" => n.lladdr = ""
        /\ n.variant = "Mac" => n.lladdr \in CanonicalMacs
        /\ n.variant = "Device" => lltype = "MacOrDevice"}

NeighInputs ==
    [json : {TRUE}, lltype : LladdrTypes, doc : NeighDocs, value : {NoNeigh}]
    \cup UNION {[json : {FALSE}, lltype : {t}, doc : {NoNeighJson}, value : NeighValues(t)] :
                    t \in LladdrTypes}

NeighInit ==
    /\ nIn \in NeighInputs
    /\ npc = IF nIn.json THEN "json" ELSE "value"
    /\ nNeigh = nIn.value
    /\ nOut = nIn.doc
    /\ nAgain = NoNeigh
    /\ AllocIdle
    /\ DelegIdle
    /\ MainIdle
    /\ RangeIdle
    /\ FrontIdle
    /\ HostIdle
    /\ ConfigIdle
    /\ TableIdle

\* main: serde_json::from_str of the evaluated array, one directive of it;
\* for a value that was serialised first, the decoding of that JSON.
NeighDecode ==
    /\ npc \in {"json", "json2"}
    /\ LET n == DecodeNeigh(nIn.lltype, nOut)
       IN  IF npc = "json"
           THEN /\ nNeigh' = n
                /\ npc' = IF n.ok THEN "value2" ELSE "failed"
                /\ UNCHANGED nAgain
           ELSE /\ nAgain' = n
                /\ npc' = "done"
                /\ UNCHANGED nNeigh
    /\ UNCHANGED <<nIn, nOut>>
    /\ UNCHANGED neighOther

\* main: serde_json::to_value(o.neigh) for the reply.
NeighSerialise ==
    /\ npc \in {"value", "value2"}
    /\ nOut' = SerialiseNeigh(nNeigh)
    /\ npc' = IF npc = "value" THEN "json2" ELSE "done"
    /\ UNCHANGED <<nIn, nNeigh, nAgain>>
    /\ UNCHANGED neighOther

NeighNext ==
    \/ NeighDecode
    \/ NeighSerialise

SpecNeigh == NeighInit /\ [][NeighNext]_vars

\* C27: an lladdr string that is a MAC address decodes to the Mac variant
\* and any other string to the Device variant; the value serialises to the
\* string it was decoded from; and a Neigh value decodes from its own
\* serialisation to itself.
C27_LladdrRoundTrip ==
    /\ (nIn.json /\ nIn.doc.lladdr # "absent" /\ npc \in {"value2", "failed", "done"})
            => /\ nNeigh.ok
               /\ nNeigh.variant =
                    IF MacFromStr(nIn.doc.lladdr).ok THEN "Mac" ELSE "Device"
    /\ (nIn.json /\ npc = "done") => nOut = nIn.doc
    /\ (~nIn.json /\ npc = "done") => nAgain = nIn.value

\* ------------------------------------------------- allocator: one PUT

\* The step is one of invocation p.
StepOf(p) == apc'[p] # apc[p]

\* The PUT of invocation p, sent with cas=0, is answered false: the key
\* exists.
PutAnsweredFalse(p) ==
    apc[p] = "put" /\ ~PutOk(kv, chosen[p].ip, input[p].requested_ip)

\* C29: an ADD selects once and sends one PUT: it comes to the PUT only from
\* the pool definition or the selection, the PUT is its last step whatever
\* the answer, and no other step of it writes; a PUT answered false ends it
\* with ConsulWriteFailed (code 125) and leaves the store as it was.
C29_NoRetryAfterLostCas ==
    [][\A p \in Procs :
        (input[p].command = "ADD" /\ StepOf(p))
            => /\ apc'[p] = "put" => apc[p] \in {"probed", "known"}
               /\ apc'[p] = "known" => apc[p] = "probed"
               /\ apc[p] = "put" => apc'[p] = "done"
               /\ apc[p] # "done"
               /\ kv' # kv => apc[p] = "put"
               /\ PutAnsweredFalse(p)
                    => /\ result'[p].kind = "ConsulWriteFailed"
                       /\ AppErrorCode(result'[p].kind) = 125
                       /\ kv' = kv]_vars

\* C29 witness: an ADD ended with ConsulWriteFailed for an address that
\* another ADD holds with success, while the pool has a free address left.
C29_Witness ==
    \E p \in Procs, q \in Procs :
        /\ p # q
        /\ input[p].command = "ADD" /\ input[p].requested_ip = NoIp
        /\ apc[p] = "done" /\ result[p].kind = "ConsulWriteFailed"
        /\ input[q].command = "ADD" /\ Succeeded(q)
        /\ result[q].ip = chosen[p].ip
        /\ FreeUnknown(PoolDef, PoolKnown(kv)) # <<>>

\* --------------------------------------------- allocator: what DEL removes

\* The key of the pool definition that pool_def reads, and the key DEL
\* names for an address it collected, as paths.
PoolDefPath == <<"ipam", "pool">>

KeyPath(ip) == <<"ipam", "pool", ip>>

\* The keys named by the operations of a delete-cas transaction.
TxnKeys(ops) == {KeyPath(op.ip) : op \in ops}

\* C30: the transaction step of a DEL for container C removes no key whose
\* value at that moment has a target other than C, whatever ran between its
\* read and its transaction, and names no other key than address keys of
\* the pool: the pool definition key is not among them.
C30_DelRemovesOnlyOwnKeys ==
    [][\A p \in Procs :
        (input[p].command = "DEL" /\ StepOf(p))
            => /\ \A ip \in Addrs :
                    (kv[ip] # Absent /\ kv'[ip] # kv[ip])
                        => /\ kv'[ip] = Absent
                           /\ kv[ip].target = input[p].container_id
                           /\ apc[p] = "txn"
               /\ apc[p] = "txn"
                    => PoolDefPath \notin TxnKeys(Rip(known[p], input[p].container_id))]_vars

\* C30 witness: a DEL has ended, and an address it had collected for its
\* container is in the store with the target of another container, which
\* took it over after the DEL's read.
C30_Witness ==
    \E p \in Procs :
        /\ input[p].command = "DEL"
        /\ apc[p] = "done"
        /\ \E ip \in Collected(p) :
            /\ kv[ip] # Absent
            /\ kv[ip].target # input[p].container_id
            /\ kv[ip].target # NullValue
            /\ kv[ip].index > known[p][ip].index

\* --------------------------------------- where an allocated address lies

\* C31: every address carried by a successful ADD reply, whether picked or
\* requested, lies within [rangeStart, rangeEnd] of a range of the pool
\* definition whose subnet contains it, and is not the gateway of that range.
C31_AddressInRange ==
    \A p \in Procs :
        (input[p].command = "ADD" /\ Succeeded(p)) =>
            \E r \in 1 .. Len(PoolDef) :
                /\ SubnetContains(PoolDef[r].subnet, result[p].ip)
                /\ IsFree(PoolDef[r], result[p].ip)

\* ------------------------------------------------ which server is used

\* The probes sent so far.
Probes == SelectSeq(fRequests, LAMBDA r : r.path = ProbePath)

\* No server of the list answers the probe with a success status.
NoGoodServer == \A j \in 1 .. Len(fIn.servers) : fIn.servers[j] # "ok"

\* C32: the probes go to the servers in list order, one each; the server
\* used is the first that answered the probe with a success status, the
\* servers before it were probed and did not, the servers after it are never
\* probed, and every request after the probes goes to it; when the list is
\* empty or no server answers with success the invocation fails and has sent
\* no request for a pool key.
C32_FirstGoodServer ==
    /\ fRequests = Probes \o CommandSent
    /\ \A j \in 1 .. Len(Probes) :
        /\ Probes[j].server = j
        /\ Probes[j].method = "GET"
    /\ fUrl = 0 => CommandSent = <<>>
    /\ fUrl # 0 =>
        /\ fUrl \in 1 .. Len(fIn.servers)
        /\ fIn.servers[fUrl] = "ok"
        /\ \A j \in 1 .. fUrl - 1 : fIn.servers[j] \in {"status", "unreachable"}
        /\ Len(Probes) = fUrl
        /\ \A j \in 1 .. Len(CommandSent) : CommandSent[j].server = fUrl
    /\ (fpc = "done" /\ NoGoodServer) =>
        /\ fResult \notin {"none", "ok"}
        /\ CommandSent = <<>>
    /\ (fpc = "done" /\ fIn.servers = <<>> /\ fIn.consul = "list"
        /\ fIn.ipam /\ fIn.prev \notin {"undecodable", "badpools"}) =>
        /\ fResult = "InvalidField"
        /\ AppReplyCode(fResult) = 107
        /\ fRequests = <<>>

\* An invocation whose first server answered with an error status, whose
\* second answered with success, and which sent every request of its command.
C32_Witness ==
    /\ fpc = "done"
    /\ fIn.servers = <<"status", "ok">>
    /\ fUrl = 2
    /\ fResult = "ok"
    /\ Len(CommandSent) = Len(CommandRequests(fIn.command, fIn.prev))
    /\ Len(CommandSent) >= 2

\* ------------------------------- one Trial against the host's table

\* The number of calls of try_once that are followed.
MaxApply == 2

\* Addresses and prefixes are strings; the ones written with a colon are
\* IPv6.
V4Addrs == {"10.0.0.1", "10.0.0.2"}

V6Addrs == {"fd00::1"}

V4Prefixes == {"10.1.0.0/24"}

V6Prefixes == {"fd01::/64"}

\* IpVersion of an IpAddr or an IpNetwork.
Family(x) == IF x \in V6Addrs \cup V6Prefixes THEN "v6" ELSE "v4"

\* The links of the host by name; a name that is not a key has no link.
HostLinks == [eth0 |-> 2, eth1 |-> 3]

\* A route without output interface, and Trial.link = Some(None).
NoLink == 0

\* An entry of the host's table: the link (ifindex, output interface), the
\* destination (address, destination prefix), the third attribute the
\* plugins look at (lladdr of a neighbour, gateway of a route) and the
\* attributes they do not look at (state, source prefix, table, priority).
Entry(link, dest, third, other) ==
    [family |-> Family(dest), link |-> link, dest |-> dest, third |-> third,
     other |-> other]

\* The entries a host may hold before the plugin runs.
NeighUniverse ==
    { Entry(2, "10.0.0.2", "AA:AA:AA:AA:AA:AA", 0),
      Entry(2, "10.0.0.2", "BB:BB:BB:BB:BB:BB", 0),
      Entry(2, "10.0.0.2", "none", 0),
      Entry(3, "10.0.0.2", "AA:AA:AA:AA:AA:AA", 0),
      Entry(2, "10.0.0.1", "AA:AA:AA:AA:AA:AA", 0),
      Entry(2, "fd00::1", "AA:AA:AA:AA:AA:AA", 0) }

RouteUniverse ==
    { Entry(2, "10.1.0.0/24", "10.0.0.1", 0),
      Entry(2, "10.1.0.0/24", "10.0.0.1", 1),
      Entry(2, "10.1.0.0/24", "none", 0),
      Entry(NoLink, "10.1.0.0/24", "10.0.0.1", 0),
      Entry(3, "10.1.0.0/24", "10.0.0.1", 0),
      Entry(2, "fd01::/64", "fd00::1", 0) }

\* The kernel keeps one neighbour per link and destination.
HostTables(plugin) ==
    IF plugin = "host-neigh"
    THEN {t \in SUBSET NeighUniverse :
            \A e \in t, f \in t : (e.link = f.link /\ e.dest = f.dest) => e = f}
    ELSE SUBSET RouteUniverse

\* The directives a Trial may hold: Neigh {address, device, lladdr} and
\* Routing {prefix, device, gateway}, an absent Option being "none".
TableDirectives(plugin) ==
    IF plugin = "host-neigh"
    THEN [dest : {"10.0.0.2", "fd00::1"}, device : {"eth0", "tun9"},
          third : {"none", "AA:AA:AA:AA:AA:AA"}]
    ELSE [dest : V4Prefixes \cup V6Prefixes, device : {"none", "eth0", "tun9"},
          third : {"none", "10.0.0.1", "fd00::1"}]

\* Neigh::validate and Routing::validate on the concrete directive.
ValidDirective(plugin, command, d) ==
    IF plugin = "host-neigh"
    THEN ~(d.third = "none" /\ command # "DEL")
    ELSE ~(d.device = "none" /\ d.third = "none")

\* link_index: the index of the device, NoLink for a route without device,
\* Unresolved when no link has the name.
LinkIndex(plugin, d) ==
    IF plugin = "host-routes" /\ d.device = "none" THEN NoLink
    ELSE IF d.device \in DOMAIN HostLinks THEN HostLinks[d.device]
    ELSE Unresolved

\* The dump of the table for one address family.
Dump(table, family) == {e \in table : e.family = family}

\* Neigh::del: the entries of the dump that are not skipped.
NeighMatches(d, link, e) ==
    /\ e.link = link
    /\ d.third # "none" => (e.third # "none" /\ e.third = d.third)
    /\ e.dest = d.dest

\* Routing::del: the entries of the dump that are not skipped.
RouteMatches(d, link, e) ==
    /\ e.link = link
    /\ e.dest = d.dest
    /\ e.third = d.third

\* del: the entries it sends a delete request for when nothing fails.
DelTargets(plugin, d, link, table) ==
    {e \in Dump(table, Family(d.dest)) :
        IF plugin = "host-neigh" THEN NeighMatches(d, link, e)
        ELSE RouteMatches(d, link, e)}

\* add: the entry the request describes. A route is given its gateway only
\* when the gateway is of the family of the prefix.
NewEntry(plugin, d, link) ==
    IF plugin = "host-neigh"
    THEN Entry(link, d.dest, d.third, 0)
    ELSE Entry(link, d.dest,
               IF d.third # "none" /\ Family(d.third) = Family(d.dest)
               THEN d.third ELSE "none", 0)

\* The requests of one del: the dump, then one delete per entry.
DelRequests(n) == <<"DUMP">> \o [k \in 1 .. n |-> "DEL"]

\* One call of try_once as the log keeps it.
Attempt(requests, ok, delok, added, before, after) ==
    [requests |-> requests, ok |-> ok, delok |-> delok, added |-> added,
     before |-> before, after |-> after]

TableInputs ==
    UNION {[plugin : {pl}, command : {"ADD", "DEL"}, directive : TableDirectives(pl),
            table : HostTables(pl)] : pl \in HostPlugins}

TableInit ==
    /\ tIn \in {i \in TableInputs : ValidDirective(i.plugin, i.command, i.directive)}
    /\ tpc = "run"
    /\ tLink = Unresolved
    /\ tTable = tIn.table
    /\ tAttempts = <<>>
    /\ AllocIdle
    /\ DelegIdle
    /\ MainIdle
    /\ RangeIdle
    /\ FrontIdle
    /\ HostIdle
    /\ ConfigIdle
    /\ NeighIdle

\* try_once: the link is not known yet and link_index fails, by an error of
\* the request or because no link has the name.
TryLinkFails ==
    /\ tpc = "run"
    /\ Len(tAttempts) < MaxApply
    /\ tLink = Unresolved
    /\ ~(tIn.plugin = "host-routes" /\ tIn.directive.device = "none")
    /\ tAttempts' = Append(tAttempts,
            Attempt(<<"GETLINK">>, FALSE, FALSE, FALSE, tTable, tTable))
    /\ UNCHANGED <<tIn, tpc, tLink, tTable>>
    /\ UNCHANGED tableOther

\* The link try_once works with, and the request that resolved it. A call
\* that returns Ok ends Trial::run; the call after it is the first of a new
\* Trial for the same directive, whose link is not resolved yet.
LinkNow == IF tLink # Unresolved THEN tLink ELSE LinkIndex(tIn.plugin, tIn.directive)

LinkRequests ==
    IF tLink # Unresolved \/ (tIn.plugin = "host-routes" /\ tIn.directive.device = "none")
    THEN <<>> ELSE <<"GETLINK">>

\* try_once, Command::Del: del. The dump or a delete may fail, which ends
\* del after the deletes already made.
TryDel ==
    /\ tpc = "run"
    /\ Len(tAttempts) < MaxApply
    /\ tIn.command = "DEL"
    /\ LinkNow # Unresolved
    /\ LET targets == DelTargets(tIn.plugin, tIn.directive, LinkNow, tTable)
       IN  \E deleted \in SUBSET targets, failed \in {"none", "dump", "del"} :
            /\ failed = "none" => deleted = targets
            /\ failed = "del" => deleted # targets
            /\ tTable' = tTable \ deleted
            /\ tAttempts' = Append(tAttempts,
                    Attempt(LinkRequests
                            \o DelRequests(Cardinality(deleted)
                                           + (IF failed = "del" THEN 1 ELSE 0)),
                            failed = "none", failed = "none", FALSE, tTable, tTable'))
            /\ tLink' = IF failed = "none" THEN Unresolved ELSE LinkNow
    /\ UNCHANGED <<tIn, tpc>>
    /\ UNCHANGED tableOther

\* try_once, other commands: add. The pre-emptive del is made first and its
\* error is logged; the request for the new entry follows, and its result is
\* the result of the call. Whether the host accepts the request is the
\* host's affair.
TryAdd ==
    /\ tpc = "run"
    /\ Len(tAttempts) < MaxApply
    /\ tIn.command = "ADD"
    /\ LinkNow # Unresolved
    /\ LET targets == DelTargets(tIn.plugin, tIn.directive, LinkNow, tTable)
           entry == NewEntry(tIn.plugin, tIn.directive, LinkNow)
       IN  \E deleted \in SUBSET targets, failed \in {"none", "dump", "del"},
              added \in BOOLEAN :
            /\ failed = "none" => deleted = targets
            /\ failed = "del" => deleted # targets
            /\ tTable' = IF added THEN (tTable \ deleted) \cup {entry}
                         ELSE tTable \ deleted
            /\ tAttempts' = Append(tAttempts,
                    Attempt(LinkRequests
                            \o DelRequests(Cardinality(deleted)
                                           + (IF failed = "del" THEN 1 ELSE 0))
                            \o <<"NEW">>,
                            added, failed = "none", added, tTable, tTable'))
            /\ tLink' = IF added THEN Unresolved ELSE LinkNow
    /\ UNCHANGED <<tIn, tpc>>
    /\ UNCHANGED tableOther

TableNext ==
    \/ TryLinkFails
    \/ TryDel
    \/ TryAdd

SpecTable == TableInit /\ [][TableNext]_vars

\* ------------------------------------------- what add and del do to the host

\* The entries of a table that meet every criterion of a directive: family,
\* link, destination, and the lladdr when the neighbour directive has one or
\* the gateway of the route directive.
Criteria(plugin, d, link, table) ==
    {e \in table :
        /\ e.family = Family(d.dest)
        /\ e.link = link
        /\ e.dest = d.dest
        /\ IF plugin = "host-neigh" THEN (d.third # "none" => e.third = d.third)
           ELSE e.third = d.third}

\* The link of the directive of the Trial.
TrialLink == LinkIndex(tIn.plugin, tIn.directive)

\* The call went past link_index.
Linked(a) == a.requests # <<"GETLINK">>

\* The requests of a call after the resolution of the link.
TableRequests(a) == SelectSeq(a.requests, LAMBDA r : r # "GETLINK")

\* C33: every call of try_once for ADD that knows the link sends the dump
\* and the deletes of the matching entries first and the request for the new
\* entry last; the call fails only when that last request fails, whatever
\* the pre-emptive delete did; a successful application leaves exactly one
\* entry that matches the directive, and a second successful application
\* leaves the table the first left.
C33_AddDeletesFirst ==
    tIn.command = "ADD" =>
        \A k \in 1 .. Len(tAttempts) :
            LET a == tAttempts[k]
                rs == TableRequests(a)
            IN  Linked(a) =>
                /\ Len(rs) >= 2
                /\ rs[1] = "DUMP"
                /\ rs[Len(rs)] = "NEW"
                /\ \A j \in 2 .. Len(rs) - 1 : rs[j] = "DEL"
                /\ a.ok = a.added
                /\ a.ok => Cardinality(Criteria(tIn.plugin, tIn.directive, TrialLink,
                                                a.after)) = 1
                /\ (k > 1 /\ tAttempts[k - 1].ok /\ a.ok) =>
                    a.after = tAttempts[k - 1].after

\* A request of the call was refused by the host or lost: link_index for a
\* device that exists, the dump, or a delete.
RequestFailed(a) ==
    \/ ~Linked(a) /\ TrialLink # Unresolved
    \/ Linked(a) /\ ~a.delok

\* C34: a call of try_once for DEL removes only entries of the directive's
\* family that meet all its criteria and leaves every other entry as it
\* was; when it returns Ok it has removed all of them; when no entry meets
\* the criteria and no request failed it returns Ok, sends no delete and
\* changes nothing, which is the case of a DEL that is repeated.
C34_DelRemovesMatches ==
    tIn.command = "DEL" =>
        \A k \in 1 .. Len(tAttempts) :
            LET a == tAttempts[k]
                expected == Criteria(tIn.plugin, tIn.directive, TrialLink, a.before)
                removed == a.before \ a.after
            IN  /\ a.after \subseteq a.before
                /\ removed \subseteq expected
                /\ a.ok => removed = expected
                /\ (expected = {} /\ ~RequestFailed(a)) =>
                    /\ a.ok
                    /\ a.after = a.before
                    /\ \A j \in 1 .. Len(a.requests) : a.requests[j] # "DEL"
                /\ (k > 1 /\ tAttempts[k - 1].ok) => expected = {}

\* ------------------------------------ when the host mutators touch the host

\* A neighbour has an lladdr unless the command is DEL; a route has a
\* device or a gateway.
WellFormedDirective(plugin, command, d) ==
    IF plugin = "host-neigh" THEN d.complete \/ command = "DEL" ELSE d.complete

\* Some directive of the decoded array is not well formed.
SomeInvalid ==
    \E i \in 1 .. Len(hDirectives) :
        ~WellFormedDirective(hIn.plugin, hIn.command, hDirectives[i])

\* C35: a netlink request is sent only after the expression was evaluated
\* in time, its output decoded as an array of directives and every
\* directive validated; when one directive of the array is invalid the
\* invocation ends with a Generic error (code 100), no request was sent and
\* the host is as it was.
C35_NoRequestBeforeValidation ==
    /\ hpc \in {"start", "eval"} => hNetlink = 0
    /\ hNetlink > 0 =>
        /\ hpc \in {"run", "done"}
        /\ hIn.command # "CHECK"
        /\ hIn[ExprKey(hIn.plugin)].type = "string"
        /\ Len(hTrials) = Len(hDirectives)
        /\ ~SomeInvalid
    /\ SomeInvalid =>
        /\ hpc = "done"
        /\ hReply.kind = "error"
        /\ hReply.code = 100
        /\ hNetlink = 0
        /\ hHost = {}
        /\ hTrials = <<>>

\* An array of two directives, the first valid and the second not.
C35_Witness ==
    /\ hpc = "done"
    /\ Len(hDirectives) = 2
    /\ WellFormedDirective(hIn.plugin, hIn.command, hDirectives[1])
    /\ ~WellFormedDirective(hIn.plugin, hIn.command, hDirectives[2])
    /\ hReply.kind = "error"
    /\ hNetlink = 0

\* C38: when an ADD replies with an error after its trials have run, the
\* entry of every directive whose Trial ended with a successful call is
\* still on the host, and the reply carries no entry.
C38_NoRollback ==
    (/\ hpc = "done"
     /\ hIn.command = "ADD"
     /\ hReply.kind = "error"
     /\ Len(hTrials) > 0)
        => /\ \A i \in 1 .. Len(hTrials) : hTrials[i].ok => i \in hHost
           /\ hReply.entries = <<>>

\* An ADD of two directives: the first succeeded at its first call, the
\* second failed every call, the reply is the joined error.
C38_Witness ==
    /\ hpc = "done"
    /\ hIn.command = "ADD"
    /\ Len(hTrials) = 2
    /\ hTrials[1].ok /\ ~hTrials[1].last_error
    /\ ~hTrials[2].ok
    /\ hErrors = <<2>>
    /\ hReply.kind = "error"
    /\ hHost = {1}

\* ------------------------------------------- the chain of ipam-delegated

\* The calls the loop over ipam.delegates made for the command itself.
LoopCalls == SelectSeq(calls, LAMBDA c : c.by = "loop" /\ c.role = "main")

\* No child is started while another runs: only the last call of the log
\* can be running, and it is the child.
OneChildAtATime ==
    /\ \A k \in 1 .. Len(calls) - 1 : calls[k].state # "running"
    /\ child # NoChild =>
        /\ calls # <<>>
        /\ LastCall.state = "running"
        /\ LastCall.plugin = child.plugin

StepFailed(j) ==
    \/ delegated_plugins[j] \notin OnPath
    \/ \E k \in 1 .. Len(LoopCalls) :
        LoopCalls[k].step = j /\ LoopCalls[k].state \notin {"Reply0", "running"}

\* The prevResult plugin j is given: the reply of the last plugin before it
\* that did not fail, the prevResult of the input when there is none.
RECURSIVE PassedOn(_)
PassedOn(j) ==
    IF j = 1 THEN RuntimeResult
    ELSE IF StepFailed(j - 1) THEN PassedOn(j - 1)
    ELSE ReplyOf(delegated_plugins[j - 1], gCommand)

IntoInputsIsNone(variant) == variant = "VERSION"

\* C39: Cni::load never returns the Version variant.  A VERSION command is
\* answered (by the version reply, or by the error reply of a failed
\* from_env) and the process exits inside load, so the variant the body
\* receives is Add, Del or Check, into_inputs() of it is not None, and the
\* unwrap() and unreachable!() after load never panic.
C39_LoadNeverReturnsVersion ==
    /\ loaded # "VERSION"
    /\ mpc = "body" => /\ loaded \in {"ADD", "DEL", "CHECK"}
                       /\ ~IntoInputsIsNone(loaded)
    /\ env.command = "VERSION" /\ mpc = "exited"
        => /\ loaded = ""
           /\ ~panicked
           /\ effects = {}
           /\ Len(stdout) = 1
           /\ stdout[1].kind \in {"version", "error"}
           /\ exitStatus = stdout[1].code
           /\ FromEnv(env, stdin) = "VERSION" => stdout[1] = VersionReply(stdin.version)

\* A VERSION command was answered inside load and the process has exited
\* without a variant reaching the body.
C39_Witness ==
    /\ env.command = "VERSION"
    /\ FromEnv(env, stdin) = "VERSION"
    /\ mpc = "exited"
    /\ loaded = ""
    /\ Len(stdout) = 1
    /\ stdout[1].kind = "version"
    /\ exitStatus = 0

====
